---------------------------- MODULE Spec2Model ----------------------------
(***************************************************************************)
(* Mapping resolution and offer attribute construction of the mapper:      *)
(* unit conversion index, category attribute map, get_mapped_values and    *)
(* the Ozon offer params manager.                                          *)
(*                                                                         *)
(* Text is a sequence of one-character strings, so that upper(), strip()   *)
(* and slicing are computed.  A float is a normalised rational <<n, d>>    *)
(* with d > 0; the inputs are chosen so that every product is exactly      *)
(* representable and prints in positional notation.                        *)
(***************************************************************************)
EXTENDS Integers, Sequences, FiniteSets, TLC

(***************************************************************************)
(* Bounds of the model.                                                    *)
(***************************************************************************)
MaxUnitRows == 2

(***************************************************************************)
(* State.                                                                  *)
(***************************************************************************)
VARIABLES
    unitRows,      \* ValueUnitMap.objects.all(), in the order the store returns
    unit_map,      \* the index returned by get_unit_map
    unitPc         \* "idle", "done" or "ZeroDivisionError"

unitVars == <<unitRows, unit_map, unitPc>>

VARIABLES
    attribute_map,          \* the attribute map handed to the resolver
    feed_attribute_values,  \* the raw values of the offer, grouped by name
    value_unit_map,         \* get_unit_map() as the resolver read it
    result,                 \* the resolver's result under construction
    pos,                    \* <<name index, value index, mapping index>>
    rpc,                    \* "idle", "loop", "done" or "ZeroDivisionError"
    visited,                \* history: the (value, mapping) pairs processed
    prov                    \* history: prov[n] is the pair that emitted
                            \* result.values[n]

resolverVars == <<attribute_map, feed_attribute_values, value_unit_map,
                  result, pos, rpc, visited, prov>>


VARIABLES
    attributeMaps,        \* AttributeMap rows; the pk of a row is its index
    valueMaps,            \* ValueMap rows
    category_mapping_id,  \* the argument of get_category_attribute_map
    mapPc                 \* "idle" or "done"

mapVars == <<attributeMaps, valueMaps, category_mapping_id, mapPc>>

VARIABLES
    offer,                      \* the offer being processed
    marketAttributeValues,      \* MarketAttributeValue rows, in store order
    ozon_attributes,            \* self._ozon_attributes
    attributes_values,          \* self._attributes_values
    complex_attributes_values,  \* self._complex_attributes_values
    required_ozon_attributes,   \* self._required_ozon_attributes
    attributes_errors,          \* self._attributes_errors
    bpc                         \* "idle", "done" or "ZeroDivisionError"

builderVars == <<offer, marketAttributeValues, ozon_attributes,
                 attributes_values, complex_attributes_values,
                 required_ozon_attributes,
                 attributes_errors, bpc>>

VARIABLES
    offers,                 \* the argument of collect_offer_import_params
    processed,              \* the number of offers the loop has processed
    offer_import_params,    \* the list collect_offer_import_params builds
    tags_errors,            \* self._tags_errors
    market_category_deleted,    \* self._category_mapping_data[...]
    fetched_attribute_map   \* history: self._attribute_map as fetched

batchVars == <<offers, processed, offer_import_params, tags_errors,
               market_category_deleted, fetched_attribute_map>>

VARIABLES
    FeedCategoryRows,       \* table FeedCategory: id -> row
    FeedAttributeRows,      \* table FeedCategoryAttribute
    FeedValueRows,          \* table FeedCategoryAttributeValue
    MarketAttributeRows,    \* table MarketCategoryAttribute, each row with
                            \* the fields of its MarketAttribute
    MarketValueRows,        \* table MarketAttributeValue
    CategoryMapRows,        \* table CategoryMap
    AttributeMapRows,       \* table AttributeMap
    ValueMapRows,           \* table ValueMap
    calls,                  \* history: the number of calls made
    last_call,              \* history: the last call and how it ended
    rows_before             \* history: the mapping tables before that call

storeVars == <<FeedCategoryRows, FeedAttributeRows, FeedValueRows,
               MarketAttributeRows, MarketValueRows, CategoryMapRows,
               AttributeMapRows, ValueMapRows, calls, last_call,
               rows_before>>

\* the garbage collector of the marketplace taxonomy
VARIABLES
    base,                   \* the five marketplace tables in MySQL
    mongo,                  \* the five collections of scheduled documents
    clock,                  \* datetime.now()
    state_first,            \* the tables as loaded, before any change
    passes,                 \* history: the number of operations run
    last_pass,              \* history: the last operation run
    before_pass,            \* history: tables and collections before it
    soft_deleted_since      \* history: for each row, the date of the first
                            \* prepare pass since which it has been
                            \* soft-deleted without a break, or 0

gcVars == <<base, mongo, clock, state_first, passes, last_pass, before_pass,
            soft_deleted_since>>

\* the state of the machines defined after the offer params manager
restVars == <<batchVars, storeVars, gcVars>>

vars == <<unitVars, resolverVars, mapVars, builderVars, restVars>>

(***************************************************************************)
(* Text.                                                                   *)
(***************************************************************************)
None == 0

LowerCase == <<"a", "b", "c", "d", "e", "f", "g", "h", "i", "j", "k", "l",
               "m", "n", "o", "p", "q", "r", "s", "t", "u", "v", "w", "x",
               "y", "z">>
UpperCase == <<"A", "B", "C", "D", "E", "F", "G", "H", "I", "J", "K", "L",
               "M", "N", "O", "P", "Q", "R", "S", "T", "U", "V", "W", "X",
               "Y", "Z">>

UpperChar(c) ==
    IF \E i \in 1..Len(LowerCase) : LowerCase[i] = c
    THEN UpperCase[CHOOSE i \in 1..Len(LowerCase) : LowerCase[i] = c]
    ELSE c

Upper(s) == [i \in 1..Len(s) |-> UpperChar(s[i])]

NBSP == "nbsp"

\* str.strip(): the no-break space is whitespace too
IsSpace(c) == c = " " \/ c = NBSP

RECURSIVE Strip(_)
Strip(s) ==
    IF s = <<>> THEN s
    ELSE IF IsSpace(s[1]) THEN Strip(SubSeq(s, 2, Len(s)))
    ELSE IF IsSpace(s[Len(s)]) THEN Strip(SubSeq(s, 1, Len(s) - 1))
    ELSE s

Replace(s, old, new) == [i \in 1..Len(s) |-> IF s[i] = old THEN new ELSE s[i]]

Digits == <<"0", "1", "2", "3", "4", "5", "6", "7", "8", "9">>

IsDigit(c) == \E i \in 1..10 : Digits[i] = c

DigitValue(c) == (CHOOSE i \in 1..10 : Digits[i] = c) - 1

RECURSIVE IntToStr(_)
IntToStr(n) ==
    IF n < 10 THEN <<Digits[n + 1]>>
    ELSE Append(IntToStr(n \div 10), Digits[(n % 10) + 1])

RECURSIVE DigitsToInt(_)
DigitsToInt(s) ==
    IF s = <<>> THEN 0
    ELSE 10 * DigitsToInt(SubSeq(s, 1, Len(s) - 1)) + DigitValue(s[Len(s)])

(***************************************************************************)
(* Floats as rationals.                                                    *)
(***************************************************************************)
RECURSIVE Gcd(_, _)
Gcd(a, b) == IF b = 0 THEN a ELSE Gcd(b, a % b)

Rat(n, d) == IF n = 0 THEN <<0, 1>> ELSE <<n \div Gcd(n, d), d \div Gcd(n, d)>>

RatMul(p, q) == Rat(p[1] * q[1], p[2] * q[2])

IsZero(p) == p[1] = 0

\* 1/x for x # 0
Reciprocal(p) == Rat(p[2], p[1])

RECURSIVE Pow10(_)
Pow10(k) == IF k = 0 THEN 1 ELSE 10 * Pow10(k - 1)

\* float(text): [ok |-> FALSE] stands for ValueError.
ParseFloat(s) ==
    LET dots == {i \in 1..Len(s) : s[i] = "."}
        digs == {i \in 1..Len(s) : IsDigit(s[i])}
    IN  IF digs = {} \/ Cardinality(dots) > 1
           \/ dots \cup digs # 1..Len(s)
        THEN [ok |-> FALSE, value |-> <<0, 1>>]
        ELSE LET dot  == IF dots = {} THEN Len(s) + 1
                         ELSE CHOOSE i \in dots : TRUE
                 ip   == SubSeq(s, 1, dot - 1)
                 fp   == SubSeq(s, dot + 1, Len(s))
             IN  [ok |-> TRUE,
                  value |-> Rat(DigitsToInt(ip) * Pow10(Len(fp))
                                + DigitsToInt(fp), Pow10(Len(fp)))]

RoundDigits == 10

\* the first k digits of r/d, r < d, by long division, and the remainder
RECURSIVE FracDigits(_, _, _)
FracDigits(r, d, k) ==
    IF k = 0 THEN [digits |-> <<>>, rem |-> r]
    ELSE LET rest == FracDigits((r * 10) % d, d, k - 1)
         IN  [digits |-> <<(r * 10) \div d>> \o rest.digits, rem |-> rest.rem]

RECURSIVE StripZeros(_)
StripZeros(ds) ==
    IF Len(ds) > 1 /\ ds[Len(ds)] = 0
    THEN StripZeros(SubSeq(ds, 1, Len(ds) - 1))
    ELSE ds

\* digits + 1 in the last place; carry is TRUE when every digit was 9
RECURSIVE Increment(_)
Increment(ds) ==
    IF ds = <<>> THEN [digits |-> <<>>, carry |-> TRUE]
    ELSE IF ds[Len(ds)] < 9
         THEN [digits |-> [ds EXCEPT ![Len(ds)] = @ + 1], carry |-> FALSE]
         ELSE LET up == Increment(SubSeq(ds, 1, Len(ds) - 1))
              IN  [digits |-> Append(up.digits, 0), carry |-> up.carry]

\* str(round(x, ndigits)) of a non-negative float in positional notation:
\* the repr of a float always carries a fractional part.
StrRound(p, ndigits) ==
    LET whole == p[1] \div p[2]
        fd    == FracDigits(p[1] % p[2], p[2], ndigits)
        up    == IF 2 * fd.rem >= p[2] /\ fd.rem # 0
                 THEN Increment(fd.digits)
                 ELSE [digits |-> fd.digits, carry |-> FALSE]
        ds    == StripZeros(up.digits)
    IN  IntToStr(IF up.carry THEN whole + 1 ELSE whole) \o <<".">>
        \o [i \in 1..Len(ds) |-> Digits[ds[i] + 1]]

(***************************************************************************)
(* Unit conversion index.                                                  *)
(***************************************************************************)
Units == {1, 2}

Multipliers == {<<0, 1>>, <<10, 1>>, <<1, 2>>, <<2, 1>>}

UnitRow == [value_unit_from_id : Units, value_unit_to_id : Units,
            multiplier : Multipliers]

\* unique_together = ['value_unit_from', 'value_unit_to']
UniquePairs(rows) ==
    \A i, j \in 1..Len(rows) :
        (rows[i].value_unit_from_id = rows[j].value_unit_from_id
         /\ rows[i].value_unit_to_id = rows[j].value_unit_to_id) => i = j

SeqsUpTo(S, n) == UNION {[1..k -> S] : k \in 0..n}

Injective(s) == \A i, j \in 1..Len(s) : s[i] = s[j] => i = j

UnitTables(n) == {rows \in SeqsUpTo(UnitRow, n) : UniquePairs(rows)}

Put(f, k, v) == [x \in DOMAIN f \cup {k} |-> IF x = k THEN v ELSE f[x]]

EmptyMap == [x \in {} |-> 0]

\* one iteration of the loop of get_unit_map
UnitMapPutNoReverse(index, row) ==
    Put(index, <<row.value_unit_from_id, row.value_unit_to_id>>,
        row.multiplier)

UnitMapPut(index, row) ==
    Put(Put(index,
            <<row.value_unit_from_id, row.value_unit_to_id>>,
            row.multiplier),
        <<row.value_unit_to_id, row.value_unit_from_id>>,
        Reciprocal(row.multiplier))

\* get_unit_map(): ok is FALSE when 1/multiplier raises ZeroDivisionError
RECURSIVE UnitMapFrom(_, _, _)
UnitMapFrom(rows, i, index) ==
    IF i > Len(rows) THEN [ok |-> TRUE, map |-> index]
    ELSE IF IsZero(rows[i].multiplier) THEN [ok |-> FALSE, map |-> index]
    ELSE UnitMapFrom(rows, i + 1, UnitMapPut(index, rows[i]))

get_unit_map(rows) == UnitMapFrom(rows, 1, EmptyMap)

UnitIdle ==
    /\ unitRows = <<>>
    /\ unit_map = EmptyMap
    /\ unitPc = "idle"

UnitInit ==
    /\ unitRows \in UnitTables(MaxUnitRows)
    /\ unit_map = EmptyMap
    /\ unitPc = "idle"

GetUnitMap ==
    /\ unitPc = "idle"
    /\ get_unit_map(unitRows).ok
    /\ unit_map' = get_unit_map(unitRows).map
    /\ unitPc' = "done"
    /\ UNCHANGED unitRows

GetUnitMapRaises ==
    /\ unitPc = "idle"
    /\ ~get_unit_map(unitRows).ok
    /\ unitPc' = "ZeroDivisionError"
    /\ UNCHANGED <<unitRows, unit_map>>

(***************************************************************************)
(* get_mapped_values.                                                      *)
(*                                                                         *)
(* attribute_map is a sequence of buckets [name, maps], maps being the     *)
(* mapping entries of the name in insertion order (a Python dict keeps     *)
(* it); feed_attribute_values is a sequence of [name, values].  An         *)
(* entry's values_map exists exactly when its dictionary_id is set.        *)
(* result.values is kept flat, every assignment carrying its name: the     *)
(* values of one name are resolved contiguously, so the flat order is the  *)
(* order of the nested dict.                                               *)
(***************************************************************************)
N1 == <<"N", "1">>
N2 == <<"N", "2">>
T_empty == <<>>
T_bl == <<"b", "l">>
T_BL == <<"B", "L">>
T_r == <<"r">>
T_R == <<"R">>
T_x == <<"x">>
T_5 == <<"5">>
T_0c5 == <<"0", ",", "5">>
T_blue == <<"b", "l", "u", "e">>
T_red == <<"r", "e", "d">>

ValueEntry(value, dictionary_value_id, deleted) ==
    [value |-> value, dictionary_value_id |-> dictionary_value_id,
     deleted |-> deleted]

MapEntry(mapping_id, source_id, dictionary_id, data_type, from_unit_id, to_unit_id, deleted, values_map) ==
    [source_id |-> source_id, dictionary_id |-> dictionary_id,
     data_type |-> data_type, mapping_id |-> mapping_id,
     from_unit_id |-> from_unit_id, to_unit_id |-> to_unit_id,
     is_rich_content |-> FALSE, ignore_data_type |-> FALSE,
     deleted |-> deleted, values_map |-> values_map]

EmptyResult ==
    [values |-> <<>>,
     unmapped_attributes |-> <<>>,
     unmapped_value_attributes |-> <<>>,
     empty_value_attributes |-> <<>>,
     type_error_attributes |-> <<>>,
     mapped_with_deleted |-> <<>>,
     mapped_with_deleted_value |-> <<>>]

Range(s) == {s[i] : i \in 1..Len(s)}

\* attribute_map.get(attr_name): <<>> when the name has no bucket
Bucket(attr_map, attr_name) ==
    IF \E b \in 1..Len(attr_map) : attr_map[b].name = attr_name
    THEN attr_map[CHOOSE b \in 1..Len(attr_map) :
                      attr_map[b].name = attr_name].maps
    ELSE <<>>

NameInValues(res, attr_name) ==
    \E n \in 1..Len(res.values) : res.values[n].name = attr_name

IsEmptyValueNever(attr_value) == FALSE

IsEmptyValue(attr_value) == attr_value = <<>>

RecordUnmappedValueAsTypeError(res, attribute_source_id) ==
    [res EXCEPT !.type_error_attributes = Append(@, attribute_source_id)]

RecordUnmappedValue(res, attribute_source_id) ==
    [res EXCEPT !.unmapped_value_attributes =
                       Append(@, attribute_source_id)]

Assignment(attr_name, value, dictionary_value_id, m) ==
    [name |-> attr_name, value |-> value,
     dictionary_value_id |-> dictionary_value_id,
     attribute_source_id |-> m.source_id, data_type |-> m.data_type,
     is_rich_content |-> m.is_rich_content,
     ignore_data_type |-> m.ignore_data_type]

\* units.get((from, to)) is truthy
HasMultiplier(units, m) ==
    /\ <<m.from_unit_id, m.to_unit_id>> \in DOMAIN units
    /\ ~IsZero(units[<<m.from_unit_id, m.to_unit_id>>])

\* which branch of the loop body a (value, mapping) pair takes
StepKind(attr_value, m, units) ==
    IF m.deleted THEN "deleted"
    ELSE IF IsEmptyValue(attr_value) THEN "empty"
    ELSE IF m.dictionary_id # None
         THEN IF Upper(attr_value) \notin DOMAIN m.values_map
              THEN "unmapped_val" ELSE "dict_hit"
    ELSE IF HasMultiplier(units, m)
         THEN IF ParseFloat(Replace(attr_value, ",", ".")).ok
              THEN "converted" ELSE "type_error"
    ELSE "plain"

\* the body of the innermost loop for one raw value and one mapping
ResolveOne(res, attr_name, attr_value, m, units) ==
    LET kind == StepKind(attr_value, m, units)
        src  == m.source_id
    IN  CASE kind = "deleted" -> res
          [] kind = "empty" ->
                [res EXCEPT !.empty_value_attributes = Append(@, src)]
          [] kind = "unmapped_val" -> RecordUnmappedValue(res, src)
          [] kind = "dict_hit" ->
                LET Live(e) == ~e.deleted
                    live == SelectSeq(m.values_map[Upper(attr_value)], Live)
                    emitted ==
                        [res EXCEPT !.values = @ \o
                            [n \in 1..Len(live) |->
                                Assignment(attr_name, live[n].value,
                                           live[n].dictionary_value_id, m)]]
                IN  IF ~NameInValues(emitted, attr_name)
                    THEN [emitted EXCEPT
                             !.mapped_with_deleted_value = Append(@, src)]
                    ELSE emitted
          [] kind = "type_error" ->
                [res EXCEPT !.type_error_attributes = Append(@, src)]
          [] kind = "converted" ->
                LET num_value ==
                        ParseFloat(Replace(attr_value, ",", ".")).value
                    multiplier ==
                        units[<<m.from_unit_id, m.to_unit_id>>]
                IN  [res EXCEPT !.values = Append(@,
                        Assignment(attr_name,
                                   StrRound(RatMul(num_value, multiplier),
                                            RoundDigits), 0, m))]
          [] OTHER ->
                [res EXCEPT !.values =
                    Append(@, Assignment(attr_name, attr_value, 0, m))]

ResolverIdle ==
    /\ attribute_map = <<>>
    /\ feed_attribute_values = <<>>
    /\ value_unit_map = EmptyMap
    /\ result = EmptyResult
    /\ pos = <<1, 1, 1>>
    /\ rpc = "idle"
    /\ visited = {}
    /\ prov = <<>>

CurName == feed_attribute_values[pos[1]].name
CurValue == feed_attribute_values[pos[1]].values[pos[2]]
CurBucket == Bucket(attribute_map, CurName)
CurMapping == CurBucket[pos[3]]
InLoop == rpc = "loop" /\ pos[1] <= Len(feed_attribute_values)

\* the next raw value, or the next name when the values are exhausted
NextValuePos ==
    IF pos[2] < Len(feed_attribute_values[pos[1]].values)
    THEN <<pos[1], pos[2] + 1, 1>>
    ELSE <<pos[1] + 1, 1, 1>>

NextMappingPos ==
    IF pos[3] < Len(CurBucket) THEN <<pos[1], pos[2], pos[3] + 1>>
    ELSE NextValuePos

\* value_unit_map = get_unit_map()
ResolverStart ==
    /\ rpc = "idle"
    /\ get_unit_map(unitRows).ok
    /\ value_unit_map' = get_unit_map(unitRows).map
    /\ rpc' = "loop"
    /\ UNCHANGED <<attribute_map, feed_attribute_values, result, pos,
                   visited, prov, unitVars,
                   mapVars, builderVars, restVars>>

ResolverStartRaises ==
    /\ rpc = "idle"
    /\ ~get_unit_map(unitRows).ok
    /\ rpc' = "ZeroDivisionError"
    /\ UNCHANGED <<attribute_map, feed_attribute_values, value_unit_map,
                   result, pos, visited, prov, unitVars,
                   mapVars, builderVars, restVars>>

\* if not attribute_mapping_data: unmapped_attributes.append(attr_name)
ResolveUnmappedName ==
    /\ InLoop
    /\ CurBucket = <<>>
    /\ result' = [result EXCEPT !.unmapped_attributes = Append(@, CurName)]
    /\ pos' = NextValuePos
    /\ UNCHANGED <<attribute_map, feed_attribute_values, value_unit_map,
                   rpc, visited, prov, unitVars,
                   mapVars, builderVars, restVars>>

AtKind(kind) ==
    /\ InLoop
    /\ CurBucket # <<>>
    /\ StepKind(CurValue, CurMapping, value_unit_map) = kind

\* one pass through the body of the innermost loop
ResolveStep ==
    /\ result' = ResolveOne(result, CurName, CurValue, CurMapping,
                            value_unit_map)
    /\ visited' = visited \cup {pos}
    /\ prov' = prov \o [n \in 1..(Len(result'.values) - Len(result.values))
                           |-> pos]
    /\ pos' = NextMappingPos
    /\ UNCHANGED <<attribute_map, feed_attribute_values, value_unit_map,
                   rpc, unitVars,
                   mapVars, builderVars, restVars>>

ResolveSkipDeleted ==
    /\ AtKind("deleted")
    /\ ResolveStep

ResolveEmpty ==
    /\ AtKind("empty")
    /\ ResolveStep

ResolveDictMiss ==
    /\ AtKind("unmapped_val")
    /\ ResolveStep

ResolveDictHit ==
    /\ AtKind("dict_hit")
    /\ ResolveStep

ResolveTypeError ==
    /\ AtKind("type_error")
    /\ ResolveStep

ResolveConverted ==
    /\ AtKind("converted")
    /\ ResolveStep

ResolvePlain ==
    /\ AtKind("plain")
    /\ ResolveStep

ResolverReturn ==
    /\ rpc = "loop"
    /\ pos[1] > Len(feed_attribute_values)
    /\ rpc' = "done"
    /\ UNCHANGED <<attribute_map, feed_attribute_values, value_unit_map,
                   result, pos, visited, prov, unitVars,
                   mapVars, builderVars, restVars>>

(***************************************************************************)
(* get_category_attribute_map.                                             *)
(***************************************************************************)
\* normalize_string
normalize_string(string) == Replace(Upper(Strip(string)), NBSP, " ")

\* FeedCategoryAttribute rows by id
FeedAttributes ==
    <<[name |-> <<"n", "1">>, unit_id |-> 1, category_id |-> 10],
      [name |-> <<" ", "N", "1">>, unit_id |-> None, category_id |-> 10],
      [name |-> <<"n", "2">>, unit_id |-> None, category_id |-> 10],
      [name |-> <<"n", "1">>, unit_id |-> None, category_id |-> 20]>>

\* MarketCategoryAttribute rows by id, each with its MarketAttribute
MarketCategoryAttributes ==
    <<[deleted |-> FALSE,
       attribute |-> [source_id |-> "85", dictionary_id |-> 7,
                      data_type |-> "String", unit_id |-> None,
                      disabled |-> FALSE, is_rich_content |-> FALSE,
                      ignore_data_type |-> FALSE]],
      [deleted |-> TRUE,
       attribute |-> [source_id |-> "90", dictionary_id |-> None,
                      data_type |-> "Integer", unit_id |-> 2,
                      disabled |-> FALSE, is_rich_content |-> FALSE,
                      ignore_data_type |-> TRUE]],
      [deleted |-> FALSE,
       attribute |-> [source_id |-> "95", dictionary_id |-> 7,
                      data_type |-> "String", unit_id |-> None,
                      disabled |-> TRUE, is_rich_content |-> TRUE,
                      ignore_data_type |-> FALSE]]>>

\* CategoryMap rows by id: the feed category of each
CategoryMapFeedCategory == <<10, 20>>

\* .filter(category_map__pk=..., marketplace_attribute__attribute__disabled=False)
InQuerysetAnyAttribute(attr_map, cm_id) ==
    attr_map.category_map_id = cm_id

InQueryset(attr_map, cm_id) ==
    /\ attr_map.category_map_id = cm_id
    /\ ~MarketCategoryAttributes[attr_map.marketplace_attribute_id]
            .attribute.disabled

\* the entry the first loop stores for one AttributeMap row
EntryOf(attr_map) ==
    LET link == MarketCategoryAttributes[attr_map.marketplace_attribute_id]
        market_attribute == link.attribute
        feed_attribute == FeedAttributes[attr_map.feed_attribute_id]
    IN  [source_id |-> market_attribute.source_id,
         dictionary_id |-> market_attribute.dictionary_id,
         data_type |-> market_attribute.data_type,
         mapping_id |-> attr_map.pk,
         from_unit_id |-> feed_attribute.unit_id,
         to_unit_id |-> market_attribute.unit_id,
         is_rich_content |-> market_attribute.is_rich_content,
         ignore_data_type |-> market_attribute.ignore_data_type,
         deleted |-> link.deleted,
         values_map |-> EmptyMap]

HasBucket(attr_map_data, name) ==
    \E b \in 1..Len(attr_map_data) : attr_map_data[b].name = name

BucketIndex(attr_map_data, name) ==
    CHOOSE b \in 1..Len(attr_map_data) : attr_map_data[b].name = name

\* attribute_map_data.setdefault(name, {}).setdefault(pk, entry)
SetDefaultEntry(attr_map_data, name, entry) ==
    IF HasBucket(attr_map_data, name)
    THEN LET b == BucketIndex(attr_map_data, name)
         IN  IF \E k \in 1..Len(attr_map_data[b].maps) :
                    attr_map_data[b].maps[k].mapping_id = entry.mapping_id
             THEN attr_map_data
             ELSE [attr_map_data EXCEPT ![b].maps = Append(@, entry)]
    ELSE Append(attr_map_data, [name |-> name, maps |-> <<entry>>])

RECURSIVE AttributeLoop(_, _, _, _)
AttributeLoop(rows, i, cm_id, attr_map_data) ==
    IF i > Len(rows) THEN attr_map_data
    ELSE IF ~InQueryset(rows[i], cm_id)
    THEN AttributeLoop(rows, i + 1, cm_id, attr_map_data)
    ELSE AttributeLoop(rows, i + 1, cm_id,
            SetDefaultEntry(attr_map_data,
                normalize_string(
                    FeedAttributes[rows[i].feed_attribute_id].name),
                EntryOf(rows[i])))

\* attr_values.setdefault(feed_value.value.upper(), []).append({...})
AddValue(attr_map_data, val_map) ==
    LET name == normalize_string(
                    FeedAttributes[val_map.feed_attribute_value.attribute_id]
                        .name)
        b == BucketIndex(attr_map_data, name)
        k == CHOOSE k \in 1..Len(attr_map_data[b].maps) :
                 attr_map_data[b].maps[k].mapping_id = val_map.attribute_map_id
        key == Upper(val_map.feed_attribute_value.value)
        market_value == val_map.marketplace_attribute_value
        item == ValueEntry(market_value.value, market_value.source_id,
                           market_value.deleted)
        old == attr_map_data[b].maps[k].values_map
    IN  IF attr_map_data[b].maps[k].dictionary_id = None
        THEN attr_map_data
        ELSE [attr_map_data EXCEPT ![b].maps[k].values_map =
                 Put(old, key,
                     IF key \in DOMAIN old THEN Append(old[key], item)
                     ELSE <<item>>)]

RECURSIVE ValueLoop(_, _, _, _, _)
ValueLoop(vrows, i, rows, cm_id, attr_map_data) ==
    IF i > Len(vrows) THEN attr_map_data
    ELSE IF ~InQueryset(rows[vrows[i].attribute_map_id], cm_id)
    THEN ValueLoop(vrows, i + 1, rows, cm_id, attr_map_data)
    ELSE ValueLoop(vrows, i + 1, rows, cm_id,
                   AddValue(attr_map_data, vrows[i]))

get_category_attribute_map(cm_id, rows, vrows) ==
    ValueLoop(vrows, 1, rows, cm_id,
              AttributeLoop(rows, 1, cm_id, <<>>))

MapIdle ==
    /\ attributeMaps = <<>>
    /\ valueMaps = <<>>
    /\ category_mapping_id = 1
    /\ mapPc = "idle"

MaxAttributeMaps == 2
MaxValueMaps == 2

\* AttributeMap.save: the feed attribute belongs to the feed category of the
\* category map; unique_together on the three references
AttributeMapCandidates ==
    {r \in [category_map_id : 1..Len(CategoryMapFeedCategory),
            feed_attribute_id : 1..Len(FeedAttributes),
            marketplace_attribute_id : 1..Len(MarketCategoryAttributes)] :
        CategoryMapFeedCategory[r.category_map_id]
            = FeedAttributes[r.feed_attribute_id].category_id}

WithPk(rs) ==
    [i \in 1..Len(rs) |->
        [pk |-> i, category_map_id |-> rs[i].category_map_id,
         feed_attribute_id |-> rs[i].feed_attribute_id,
         marketplace_attribute_id |-> rs[i].marketplace_attribute_id]]

AttributeMapTables(n) ==
    {WithPk(rs) : rs \in {s \in SeqsUpTo(AttributeMapCandidates, n) :
                             Injective(s)}}

MarketValues ==
    {[value |-> T_blue, source_id |-> 42, deleted |-> FALSE],
     [value |-> T_red, source_id |-> 0, deleted |-> TRUE]}

\* ValueMap.save: the feed value belongs to the feed attribute of the
\* attribute map
ValueMapCandidates(rows) ==
    {[attribute_map_id |-> k,
      feed_attribute_value |->
          [value |-> IF mv.deleted THEN T_BL ELSE T_bl,
           attribute_id |-> rows[k].feed_attribute_id],
      marketplace_attribute_value |-> mv] :
        k \in 1..Len(rows), mv \in MarketValues}

ValueMapTables(rows, n) ==
    {s \in SeqsUpTo(ValueMapCandidates(rows), n) : Injective(s)}

MapInit ==
    /\ attributeMaps \in AttributeMapTables(MaxAttributeMaps)
    /\ valueMaps \in ValueMapTables(attributeMaps, MaxValueMaps)
    /\ category_mapping_id \in 1..Len(CategoryMapFeedCategory)
    /\ mapPc = "idle"

GetCategoryAttributeMap ==
    /\ mapPc = "idle"
    /\ attribute_map' = get_category_attribute_map(category_mapping_id,
                                                   attributeMaps, valueMaps)
    /\ mapPc' = "done"
    /\ UNCHANGED <<attributeMaps, valueMaps, category_mapping_id>>
    /\ UNCHANGED <<feed_attribute_values, value_unit_map, result, pos, rpc,
                   visited, prov, unitVars, builderVars, restVars>>

(***************************************************************************)
(* OzonOfferParamsManager: the state of one manager.                       *)
(*                                                                         *)
(* The offer is [tags, param, tn_ved_codes]: tags are the scalar tags of   *)
(* the offer dict in its order ('@id' among them), param the list under    *)
(* 'param' and tn_ved_codes the list under 'tn-ved-codes'/'tn-ved-code'.   *)
(* _ozon_attributes, _attributes_values and the error maps are functions   *)
(* from source ids; self._attribute_map is the variable attribute_map.     *)
(***************************************************************************)
NoOffer == [tags |-> <<>>, param |-> <<>>, tn_ved_codes |-> <<>>]

BuilderIdle ==
    /\ offer = NoOffer
    /\ marketAttributeValues = <<>>
    /\ ozon_attributes = EmptyMap
    /\ attributes_values = EmptyMap
    /\ complex_attributes_values = EmptyMap
    /\ required_ozon_attributes = <<>>
    /\ attributes_errors = EmptyMap
    /\ bpc = "idle"

\* collect_offer_import_params has not been called
BatchIdle ==
    /\ offers = <<>>
    /\ processed = 0
    /\ offer_import_params = <<>>
    /\ tags_errors = EmptyMap
    /\ market_category_deleted = FALSE
    /\ fetched_attribute_map = EmptyMap

NoCall == [name |-> "", arg |-> None, error |-> ""]

\* the mapping tables are empty and nothing has been called
StoreIdle ==
    /\ FeedCategoryRows = EmptyMap
    /\ FeedAttributeRows = EmptyMap
    /\ FeedValueRows = EmptyMap
    /\ MarketAttributeRows = EmptyMap
    /\ MarketValueRows = EmptyMap
    /\ CategoryMapRows = EmptyMap
    /\ AttributeMapRows = EmptyMap
    /\ ValueMapRows = EmptyMap
    /\ calls = 0
    /\ last_call = NoCall
    /\ rows_before = [AttributeMap |-> EmptyMap, ValueMap |-> EmptyMap]

\* five empty tables, or five empty collections
NoRows ==
    [mp_categories |-> EmptyMap, mp_category_attributes |-> EmptyMap,
     mp_attributes |-> EmptyMap, mp_dictionaries |-> EmptyMap,
     mp_values |-> EmptyMap]

NoPass == [name |-> "", table |-> "", ids |-> {}, date |-> 0]

\* nothing is stored and the garbage collector has not run
GcIdle ==
    /\ base = NoRows
    /\ mongo = NoRows
    /\ clock = 0
    /\ state_first = NoRows
    /\ passes = 0
    /\ last_pass = NoPass
    /\ before_pass = [base |-> NoRows, mongo |-> NoRows]
    /\ soft_deleted_since = NoRows

RestIdle ==
    /\ BatchIdle
    /\ StoreIdle
    /\ GcIdle

\* the manager's accumulators, threaded through the steps of one offer
Acc(values, complex, required, errors) ==
    [values |-> values, complex |-> complex, required |-> required,
     errors |-> errors]

\* _remove_ozon_attribute_from_required
RemoveFromRequired(required, source_id) ==
    LET Other(x) == x # source_id
    IN  SelectSeq(required, Other)

\* _add_attribute_value
AddAttributeValue(acc, attribute_source_id, value, dictionary_value_id) ==
    LET item == [value |-> value, dictionary_value_id |-> dictionary_value_id]
    IN  [acc EXCEPT
            !.values = Put(@, attribute_source_id,
                           IF attribute_source_id \in DOMAIN @
                           THEN Append(@[attribute_source_id], item)
                           ELSE <<item>>),
            !.required = RemoveFromRequired(@, attribute_source_id)]

(***************************************************************************)
(* _add_tn_ved_codes.                                                      *)
(***************************************************************************)
\* 'ТН ВЭД', transliterated
TN_VED_CODE_SUBSTRING == <<"T", "N", " ", "V", "E", "D">>

\* sub in s
Contains(s, sub) ==
    \E i \in 1..(Len(s) - Len(sub) + 1) : SubSeq(s, i, i + Len(sub) - 1) = sub

IsCodeChar(c) == IsDigit(c) \/ c = " " \/ c = "."

\* re.search(r'(?P<code>\d[\d .]{2,}\d)', code): the leftmost, longest run
CodeMatches(code) ==
    {<<i, j>> \in (1..Len(code)) \X (1..Len(code)) :
        /\ j >= i + 3
        /\ IsDigit(code[i])
        /\ IsDigit(code[j])
        /\ \A k \in i..j : IsCodeChar(code[k])}

RemoveChar(s, c) ==
    LET Keep(x) == x # c
    IN  SelectSeq(s, Keep)

\* _extract_tn_ved_code
extract_tn_ved_code(code) ==
    IF CodeMatches(code) = {} THEN <<>>
    ELSE LET i == CHOOSE i \in 1..Len(code) :
                      /\ \E m \in CodeMatches(code) : m[1] = i
                      /\ \A m \in CodeMatches(code) : m[1] >= i
             j == CHOOSE j \in 1..Len(code) :
                      /\ <<i, j>> \in CodeMatches(code)
                      /\ \A m \in CodeMatches(code) : m[1] = i => m[2] <= j
         IN  RemoveChar(SubSeq(code, i, j), " ")

\* values_by_code of one attribute: later rows overwrite earlier ones
RECURSIVE ValuesByCode(_, _, _, _)
ValuesByCode(rows, i, dictionary_id, values_by_code) ==
    IF i > Len(rows) THEN values_by_code
    ELSE IF rows[i].dictionary_id # dictionary_id \/ rows[i].deleted
    THEN ValuesByCode(rows, i + 1, dictionary_id, values_by_code)
    ELSE ValuesByCode(rows, i + 1, dictionary_id,
            Put(values_by_code, extract_tn_ved_code(rows[i].value),
                [value |-> rows[i].value,
                 dictionary_value_id |-> rows[i].source_id]))

\* the offer's code compared as it is written
CodeAsWritten(tn_ved_code) == tn_ved_code

\* the while loop: the longest prefix of at least 4 characters that is a key,
\* or <<>> when the loop ends without break
RECURSIVE MatchingPart(_, _)
MatchingPart(tn_ved_code_part, values_by_code) ==
    IF Len(tn_ved_code_part) < 4 THEN <<>>
    ELSE IF tn_ved_code_part \in DOMAIN values_by_code THEN tn_ved_code_part
    ELSE MatchingPart(SubSeq(tn_ved_code_part, 1, Len(tn_ved_code_part) - 1),
                      values_by_code)

\* tn_ved_code[:4]
Head4(s) == SubSeq(s, 1, IF Len(s) < 4 THEN Len(s) ELSE 4)

\* the key one offer code selects, or <<>>
SelectedKey(tn_ved_code, values_by_code) ==
    LET part == MatchingPart(CodeAsWritten(tn_ved_code), values_by_code)
        fallback == Head4(tn_ved_code) \o <<"0", "0">>
    IN  IF part # <<>> THEN part
        ELSE IF Len(tn_ved_code) >= 3 /\ fallback \in DOMAIN values_by_code
        THEN fallback
        ELSE <<>>

RECURSIVE AddCodes(_, _, _, _, _)
AddCodes(acc, ozon_attr_id, tn_ved_codes, i, values_by_code) ==
    IF i > Len(tn_ved_codes) THEN acc
    ELSE LET key == SelectedKey(tn_ved_codes[i], values_by_code)
         IN  AddCodes(
                IF key = <<>> THEN acc
                ELSE AddAttributeValue(acc, ozon_attr_id,
                         values_by_code[key].value,
                         values_by_code[key].dictionary_value_id),
                ozon_attr_id, tn_ved_codes, i + 1, values_by_code)

\* TN_VED_CODE_SUBSTRING in data['name']
TnVedAttributes(ozon_attrs) ==
    {source_id \in DOMAIN ozon_attrs :
        Contains(ozon_attrs[source_id].name, TN_VED_CODE_SUBSTRING)}

RECURSIVE AddTnVedValues(_, _, _, _, _)
AddTnVedValues(acc, todo, ozon_attrs, tn_ved_codes, rows) ==
    IF todo = {} THEN acc
    ELSE LET ozon_attr_id == CHOOSE x \in todo : TRUE
         IN  AddTnVedValues(
                AddCodes(acc, ozon_attr_id, tn_ved_codes, 1,
                         ValuesByCode(rows, 1,
                             ozon_attrs[ozon_attr_id].dictionary_id,
                             EmptyMap)),
                todo \ {ozon_attr_id}, ozon_attrs, tn_ved_codes, rows)

\* the errors _add_tn_ved_codes returns
TnVedErrors(required, ozon_attrs, tn_ved_codes) ==
    [source_id \in {x \in TnVedAttributes(ozon_attrs) : x \in Range(required)}
        |-> IF tn_ved_codes = <<>> THEN "missing" ELSE "not_found"]

\* errors.update(other)
Update(errors, other) ==
    [x \in DOMAIN errors \cup DOMAIN other |->
        IF x \in DOMAIN other THEN other[x] ELSE errors[x]]

\* tn_ved_result = self._add_tn_ved_codes(offer); errors.update(...)
add_tn_ved_codes(acc, o, ozon_attrs, rows) ==
    LET added == AddTnVedValues(acc, TnVedAttributes(ozon_attrs), ozon_attrs,
                                o.tn_ved_codes, rows)
    IN  [added EXCEPT !.errors =
            Update(@, TnVedErrors(added.required, ozon_attrs,
                                  o.tn_ved_codes))]

(***************************************************************************)
(* _collect_attributes.                                                    *)
(***************************************************************************)
\* a Python None where a text is expected
TNone == <<"<None>">>

K_id == <<"@", "i", "d">>
K_group_id == <<"@", "g", "r", "o", "u", "p", "_", "i", "d">>
K_name == <<"n", "a", "m", "e">>
K_typePrefix == <<"t", "y", "p", "e", "P", "r", "e", "f", "i", "x">>
K_vendor == <<"v", "e", "n", "d", "o", "r">>
K_model == <<"m", "o", "d", "e", "l">>
K_vendorCode == <<"v", "e", "n", "d", "o", "r", "C", "o", "d", "e">>
K_dimensions == <<"d", "i", "m", "e", "n", "s", "i", "o", "n", "s">>
K_weight == <<"w", "e", "i", "g", "h", "t">>
K_description == <<"d", "e", "s", "c", "r", "i", "p", "t", "i", "o", "n">>

\* 'МОДЕЛЬНЫЙ ГОД'.upper(), transliterated
MODEL_YEAR_PARAM == <<"M", "O", "D", "E", "L", "N", "Y", "I", " ", "G", "O", "D">>
MODEL_YEAR_PARAM_INT == MODEL_YEAR_PARAM \o <<" ", "I", "N", "T">>

TYPE_SOURCE_ID == "8229"
VIDEO_URL_ID == "21841"
VIDEO_NAME_ID == "21837"
COMPLEX_ATTRIBUTE_IDS == {VIDEO_URL_ID, VIDEO_NAME_ID}

OZON_ATTRIBUTES_IDS ==
    [group |-> <<"8292", "10289">>, weight |-> <<"4497">>,
     length |-> <<"9454">>, width |-> <<"9455">>, height |-> <<"9456">>,
     model |-> <<"9048">>, annotation |-> <<"4191">>, name |-> <<"4180">>,
     vendorCode |-> <<"9024">>]

\* offer.get(tag)
HasTag(o, tag) == \E i \in 1..Len(o.tags) : o.tags[i].tag = tag

TagValue(o, tag) ==
    IF HasTag(o, tag)
    THEN o.tags[CHOOSE i \in 1..Len(o.tags) : o.tags[i].tag = tag].value
    ELSE TNone

\* bool(text) of a text or None
Truthy(text) == text # TNone /\ text # <<>>

\* feed_params_values.setdefault(name, []).append(value)
AddFeedValue(fpv, name, value) ==
    IF \E i \in 1..Len(fpv) : fpv[i].name = name
    THEN LET i == CHOOSE i \in 1..Len(fpv) : fpv[i].name = name
         IN  [fpv EXCEPT ![i].values = Append(@, value)]
    ELSE Append(fpv, [name |-> name, values |-> <<value>>])

RECURSIVE AddParams(_, _, _)
AddParams(fpv, param, i) ==
    IF i > Len(param) THEN fpv
    ELSE AddParams(AddFeedValue(fpv, normalize_string(param[i].name),
                                Strip(param[i].text)),
                   param, i + 1)

RECURSIVE AddTags(_, _, _)
AddTags(fpv, tags, i) ==
    IF i > Len(tags) THEN fpv
    ELSE AddTags(AddFeedValue(fpv, Upper(Strip(tags[i].tag)),
                              Strip(tags[i].value)),
                 tags, i + 1)

HasFeedName(fpv, name) == \E i \in 1..Len(fpv) : fpv[i].name = name

FeedValues(fpv, name) ==
    fpv[CHOOSE i \in 1..Len(fpv) : fpv[i].name = name].values

\* text.split('-')[-1]
RECURSIVE LastPart(_, _)
LastPart(text, sep) ==
    IF \E i \in 1..Len(text) : text[i] = sep
    THEN LastPart(SubSeq(text,
                         (CHOOSE i \in 1..Len(text) : text[i] = sep) + 1,
                         Len(text)), sep)
    ELSE text

\* text[-n:]
Tail4(text) == SubSeq(text, IF Len(text) > 4 THEN Len(text) - 3 ELSE 1,
                      Len(text))

\* ('20' + model_year.split('-')[-1])[-4:]
OzonModelYear(model_year) == Tail4(<<"2", "0">> \o LastPart(model_year, "-"))

\* feed_params_values[name] = values
SetFeedValues(fpv, name, values) ==
    IF HasFeedName(fpv, name)
    THEN [fpv EXCEPT ![CHOOSE i \in 1..Len(fpv) : fpv[i].name = name].values
                         = values]
    ELSE Append(fpv, [name |-> name, values |-> values])

\* lines 455-482: feed_params_values of one offer
FeedParamsValues(o) ==
    LET fpv == AddTags(AddParams(<<>>, o.param, 1), o.tags, 1)
    IN  IF HasFeedName(fpv, MODEL_YEAR_PARAM)
        THEN SetFeedValues(fpv, MODEL_YEAR_PARAM_INT,
                 [n \in 1..Len(FeedValues(fpv, MODEL_YEAR_PARAM)) |->
                     OzonModelYear(FeedValues(fpv, MODEL_YEAR_PARAM)[n])])
        ELSE fpv

\* self._attribute_map.setdefault(name, {})[mapping_id] = mapping_data
SetEntry(attr_map, name, entry) ==
    IF HasBucket(attr_map, name)
    THEN LET b == BucketIndex(attr_map, name)
         IN  IF \E k \in 1..Len(attr_map[b].maps) :
                    attr_map[b].maps[k].mapping_id = entry.mapping_id
             THEN [attr_map EXCEPT ![b].maps[
                      CHOOSE k \in 1..Len(attr_map[b].maps) :
                          attr_map[b].maps[k].mapping_id = entry.mapping_id]
                      = entry]
             ELSE [attr_map EXCEPT ![b].maps = Append(@, entry)]
    ELSE Append(attr_map, [name |-> name, maps |-> <<entry>>])

\* self._attribute_map[name].pop(mapping_id)
PopEntry(attr_map, name, mapping_id) ==
    LET Other(e) == e.mapping_id # mapping_id
    IN  [attr_map EXCEPT ![BucketIndex(attr_map, name)].maps =
            SelectSeq(@, Other)]

RECURSIVE RekeyLoop(_, _, _)
RekeyLoop(attr_map, entries, i) ==
    IF i > Len(entries) THEN attr_map
    ELSE IF entries[i].dictionary_id # None
    THEN RekeyLoop(attr_map, entries, i + 1)
    ELSE RekeyLoop(PopEntry(SetEntry(attr_map, MODEL_YEAR_PARAM_INT,
                                     entries[i]),
                            MODEL_YEAR_PARAM, entries[i].mapping_id),
                   entries, i + 1)

\* lines 484-496: the model-year mappings without a values_map move to the
\* bucket of MODEL_YEAR_PARAM_INT
RekeyModelYear(attr_map) ==
    IF HasBucket(attr_map, MODEL_YEAR_PARAM)
    THEN RekeyLoop(attr_map, Bucket(attr_map, MODEL_YEAR_PARAM), 1)
    ELSE attr_map

\* get_mapped_values past the unit index: the three nested loops
RECURSIVE ResolveMappings(_, _, _, _, _, _)
ResolveMappings(res, attr_name, attr_value, maps, k, units) ==
    IF k > Len(maps) THEN res
    ELSE ResolveMappings(ResolveOne(res, attr_name, attr_value, maps[k],
                                    units),
                         attr_name, attr_value, maps, k + 1, units)

RECURSIVE ResolveValues(_, _, _, _, _, _)
ResolveValues(res, attr_map, attr_name, attr_values, j, units) ==
    IF j > Len(attr_values) THEN res
    ELSE ResolveValues(
            IF Bucket(attr_map, attr_name) = <<>>
            THEN [res EXCEPT !.unmapped_attributes = Append(@, attr_name)]
            ELSE ResolveMappings(res, attr_name, attr_values[j],
                                 Bucket(attr_map, attr_name), 1, units),
            attr_map, attr_name, attr_values, j + 1, units)

RECURSIVE ResolveNames(_, _, _, _, _)
ResolveNames(res, attr_map, fpv, i, units) ==
    IF i > Len(fpv) THEN res
    ELSE ResolveNames(ResolveValues(res, attr_map, fpv[i].name,
                                    fpv[i].values, 1, units),
                      attr_map, fpv, i + 1, units)

get_mapped_values(attr_map, fpv, rows) ==
    [ok |-> get_unit_map(rows).ok,
     result |-> IF get_unit_map(rows).ok
                THEN ResolveNames(EmptyResult, attr_map, fpv, 1,
                                  get_unit_map(rows).map)
                ELSE EmptyResult]

\* add_error of _collect_attributes
add_error(acc, ozon_attrs, source_id, error) ==
    IF source_id \notin DOMAIN ozon_attrs THEN acc
    ELSE IF ~ozon_attrs[source_id].required THEN acc
    ELSE [acc EXCEPT !.errors = Put(@, source_id, error)]

\* int(text): [ok |-> FALSE] stands for ValueError
ParseInt(text) ==
    IF text # <<>> /\ \A i \in 1..Len(text) : IsDigit(text[i])
    THEN [ok |-> TRUE, value |-> DigitsToInt(text)]
    ELSE [ok |-> FALSE, value |-> 0]

ReprDigits == 16

\* str(x) of a float
StrFloat(p) == StrRound(p, ReprDigits)

\* remove_prohibited_characters: the texts of the model hold no prohibited
\* character
remove_prohibited_characters(text) == RemoveChar(text, "\\x00")

\* _convert_attribute_value
convert_attribute_value(value, type) ==
    IF type = "Decimal"
    THEN [ok |-> ParseFloat(Replace(value, ",", ".")).ok,
          value |-> IF ParseFloat(Replace(value, ",", ".")).ok
                    THEN StrFloat(ParseFloat(Replace(value, ",", ".")).value)
                    ELSE value]
    ELSE IF type = "Integer"
    THEN [ok |-> ParseInt(value).ok,
          value |-> IF ParseInt(value).ok
                    THEN IntToStr(ParseInt(value).value) ELSE value]
    ELSE [ok |-> TRUE, value |-> remove_prohibited_characters(value)]

\* text.split(sep)[1]
AfterFirst(text, sep) ==
    LET i == CHOOSE i \in 1..(Len(text) - Len(sep) + 1) :
                 /\ SubSeq(text, i, i + Len(sep) - 1) = sep
                 /\ \A j \in 1..(i - 1) :
                        SubSeq(text, j, j + Len(sep) - 1) # sep
        rest == SubSeq(text, i + Len(sep), Len(text))
    IN  IF Contains(rest, sep)
        THEN SubSeq(rest, 1,
                 (CHOOSE j \in 1..(Len(rest) - Len(sep) + 1) :
                      /\ SubSeq(rest, j, j + Len(sep) - 1) = sep
                      /\ \A l \in 1..(j - 1) :
                             SubSeq(rest, l, l + Len(sep) - 1) # sep) - 1)
        ELSE rest

Url_base == <<"y", "o", "u", "t", "u", "b", "e", ".", "c", "o", "m", "/", "w", "a", "t", "c", "h", "?", "v", "=">>
Url_base_full == <<"h", "t", "t", "p", "s", ":", "/", "/", "w", "w", "w", ".", "y", "o", "u", "t", "u", "b", "e", ".", "c", "o", "m", "/", "w", "a", "t", "c", "h", "?", "v", "=">>
Url_shorten_base == <<"y", "o", "u", "t", "u", ".", "b", "e", "/">>

process_video_url(attr_url) ==
    IF ~Contains(attr_url, <<".">>) THEN Url_base_full \o attr_url
    ELSE IF Contains(attr_url, Url_base)
    THEN Url_base_full \o AfterFirst(attr_url, Url_base)
    ELSE IF Contains(attr_url, Url_shorten_base)
    THEN Url_base_full \o AfterFirst(attr_url, Url_shorten_base)
    ELSE attr_url

\* _add_complex_attribute_value
AddComplexAttributeValue(acc, attribute_source_id, value) ==
    [acc EXCEPT
        !.complex = Put(@, attribute_source_id,
                        IF attribute_source_id \in DOMAIN @
                        THEN Append(@[attribute_source_id], value)
                        ELSE <<value>>),
        !.required = RemoveFromRequired(@, attribute_source_id)]

\* lines 503-542: the resolved values become attribute values; a value that
\* fails its type conversion ends the values of its name
RECURSIVE AddResolvedValues(_, _, _, _, _)
AddResolvedValues(acc, ozon_attrs, values, n, broken) ==
    IF n > Len(values) THEN acc
    ELSE LET value_data == values[n]
             converted == convert_attribute_value(value_data.value,
                                                  value_data.data_type)
         IN  IF value_data.name \in broken
             THEN AddResolvedValues(acc, ozon_attrs, values, n + 1, broken)
             ELSE IF value_data.attribute_source_id \in COMPLEX_ATTRIBUTE_IDS
             THEN AddResolvedValues(
                      AddComplexAttributeValue(acc,
                          value_data.attribute_source_id,
                          IF value_data.attribute_source_id = VIDEO_URL_ID
                          THEN process_video_url(value_data.value)
                          ELSE value_data.value),
                      ozon_attrs, values, n + 1, broken)
             ELSE IF /\ value_data.dictionary_value_id = 0
                     /\ ~value_data.is_rich_content
                     /\ ~value_data.ignore_data_type
             THEN IF converted.ok
                  THEN AddResolvedValues(
                           AddAttributeValue(acc,
                               value_data.attribute_source_id,
                               converted.value, 0),
                           ozon_attrs, values, n + 1, broken)
                  ELSE AddResolvedValues(
                           add_error(acc, ozon_attrs,
                                     value_data.attribute_source_id,
                                     "bad_value"),
                           ozon_attrs, values, n + 1,
                           broken \cup {value_data.name})
             ELSE AddResolvedValues(
                      AddAttributeValue(acc, value_data.attribute_source_id,
                                        value_data.value,
                                        value_data.dictionary_value_id),
                      ozon_attrs, values, n + 1, broken)

RECURSIVE AddErrors(_, _, _, _, _)
AddErrors(acc, ozon_attrs, source_ids, n, error) ==
    IF n > Len(source_ids) THEN acc
    ELSE AddErrors(add_error(acc, ozon_attrs, source_ids[n], error),
                   ozon_attrs, source_ids, n + 1, error)

\* lines 544-562: the resolver's classifications become errors
AddResolverErrors(acc, ozon_attrs, res) ==
    AddErrors(
        AddErrors(
            AddErrors(
                AddErrors(acc, ozon_attrs, res.mapped_with_deleted_value, 1,
                          "mapped_with_deleted_value"),
                ozon_attrs, res.unmapped_value_attributes, 1, "unmapped_val"),
            ozon_attrs, res.empty_value_attributes, 1, "empty"),
        ozon_attrs, res.type_error_attributes, 1, "bad_value")

\* add_if_exists
RECURSIVE add_if_exists(_, _, _, _, _)
add_if_exists(acc, ozon_attrs, attribute_source_ids, n, value) ==
    IF n > Len(attribute_source_ids) THEN acc
    ELSE IF attribute_source_ids[n] \notin DOMAIN ozon_attrs
    THEN add_if_exists(acc, ozon_attrs, attribute_source_ids, n + 1, value)
    ELSE IF value = TNone
    THEN add_error(acc, ozon_attrs, attribute_source_ids[n], "missing")
    ELSE add_if_exists(
            AddAttributeValue(
                IF value = <<>>
                THEN add_error(acc, ozon_attrs, attribute_source_ids[n],
                               "empty")
                ELSE acc,
                attribute_source_ids[n], value, 0),
            ozon_attrs, attribute_source_ids, n + 1, value)

\* text.split(sep)
RECURSIVE Split(_, _)
Split(text, sep) ==
    IF \E i \in 1..Len(text) : text[i] = sep
    THEN LET i == CHOOSE i \in 1..Len(text) :
                      text[i] = sep /\ \A j \in 1..(i - 1) : text[j] # sep
         IN  <<SubSeq(text, 1, i - 1)>>
             \o Split(SubSeq(text, i + 1, Len(text)), sep)
    ELSE <<text>>

Zeros == <<<<"0">>, <<"0">>, <<"0">>>>

\* parse_dimensions: str(int(float(v or '0') * 10)) of the three parts
parse_dimensions(dimensions) ==
    IF dimensions = TNone THEN Zeros
    ELSE LET parts == Split(Replace(dimensions, ",", "."), "/")
             Num(v) == ParseFloat(IF v = <<>> THEN <<"0">> ELSE v)
         IN  IF Len(parts) # 3 \/ \E n \in 1..3 : ~Num(parts[n]).ok
             THEN Zeros
             ELSE [n \in 1..3 |->
                      IntToStr((Num(parts[n]).value[1] * 10)
                               \div Num(parts[n]).value[2])]

\* the name handed to add_if_exists('name', ...): ' '.join runs on the map
\* object that all() has already exhausted
FallbackName(o) ==
    IF Truthy(TagValue(o, K_name)) THEN TagValue(o, K_name)
    ELSE IF /\ Truthy(TagValue(o, K_typePrefix))
            /\ Truthy(TagValue(o, K_vendor))
            /\ Truthy(TagValue(o, K_model))
    THEN <<>>
    ELSE TagValue(o, K_name)

\* float(str(weight).replace(',', '.')) of _get(offer, 'weight', 0)
ParseWeight(o) ==
    IF HasTag(o, K_weight)
    THEN ParseFloat(Replace(TagValue(o, K_weight), ",", "."))
    ELSE [ok |-> TRUE, value |-> <<0, 1>>]

\* _clear_annotation_tags of a text without markup
clear_annotation_tags(text) == Strip(text)

\* lines 578-621: the values taken straight from the offer's tags
AddFallbackTags(acc0, ozon_attrs, o) ==
    LET ids == OZON_ATTRIBUTES_IDS
        dims == parse_dimensions(TagValue(o, K_dimensions))
        a1 == add_if_exists(acc0, ozon_attrs, ids.name, 1, FallbackName(o))
        a2 == add_if_exists(a1, ozon_attrs, ids.vendorCode, 1,
                            TagValue(o, K_vendorCode))
        a3 == add_if_exists(a2, ozon_attrs, ids.group, 1,
                            IF HasTag(o, K_group_id)
                            THEN TagValue(o, K_group_id)
                            ELSE <<"b", "2", "b", "-">> \o TagValue(o, K_id))
        a4 == add_if_exists(a3, ozon_attrs, ids.length, 1, dims[1])
        a5 == add_if_exists(a4, ozon_attrs, ids.width, 1, dims[2])
        a6 == add_if_exists(a5, ozon_attrs, ids.height, 1, dims[3])
        a7 == IF ParseWeight(o).ok
              THEN add_if_exists(a6, ozon_attrs, ids.weight, 1,
                       StrFloat(RatMul(ParseWeight(o).value, <<1000, 1>>)))
              ELSE IF ids.weight[1] \in Range(a6.required)
              THEN [a6 EXCEPT !.errors = Put(@, ids.weight[1], "bad_value")]
              ELSE a6
        a8 == add_if_exists(a7, ozon_attrs, ids.model, 1,
                            TagValue(o, K_model))
    IN  IF Truthy(TagValue(o, K_description))
        THEN add_if_exists(a8, ozon_attrs, ids.annotation, 1,
                 clear_annotation_tags(
                     remove_prohibited_characters(
                         TagValue(o, K_description))))
        ELSE a8

\* lines 630-636: the name of the last mapping of each marketplace attribute
RECURSIVE MappingsOfBucket(_, _, _, _)
MappingsOfBucket(mappings, name, maps, k) ==
    IF k > Len(maps) THEN mappings
    ELSE MappingsOfBucket(
            Put(mappings, maps[k].source_id,
                [name |-> name, map_id |-> maps[k].mapping_id]),
            name, maps, k + 1)

RECURSIVE Mappings(_, _, _)
Mappings(mappings, attr_map, b) ==
    IF b > Len(attr_map) THEN mappings
    ELSE Mappings(MappingsOfBucket(mappings, attr_map[b].name,
                                   attr_map[b].maps, 1),
                  attr_map, b + 1)

\* lines 640-654: the error of a required attribute left without one
RequiredErrorIgnoresDisabled(source_id, ozon_attrs, mappings, fpv) ==
    IF source_id \notin DOMAIN mappings THEN "unmapped"
    ELSE IF ~HasFeedName(fpv, mappings[source_id].name) THEN "missing"
    ELSE "unknown err"

RequiredErrorIgnoresOffer(source_id, ozon_attrs, mappings, fpv) ==
    IF ozon_attrs[source_id].disabled THEN "logical"
    ELSE IF source_id \notin DOMAIN mappings THEN "unmapped"
    ELSE "unknown err"

\* the mutation under which the mapping is looked at before the disabled
\* flag
RequiredErrorUnmappedFirst(source_id, ozon_attrs, mappings, fpv) ==
    IF source_id \notin DOMAIN mappings THEN "unmapped"
    ELSE IF ozon_attrs[source_id].disabled THEN "logical"
    ELSE IF ~HasFeedName(fpv, mappings[source_id].name) THEN "missing"
    ELSE "unknown err"

RequiredError(source_id, ozon_attrs, mappings, fpv) ==
    IF ozon_attrs[source_id].disabled THEN "logical"
    ELSE IF source_id \notin DOMAIN mappings THEN "unmapped"
    ELSE IF ~HasFeedName(fpv, mappings[source_id].name) THEN "missing"
    ELSE "unknown err"

\* lines 637-656
RECURSIVE Consolidate(_, _, _, _, _)
Consolidate(acc, ozon_attrs, mappings, fpv, n) ==
    IF n > Len(acc.required) THEN acc
    ELSE Consolidate(
            IF acc.required[n] \in DOMAIN acc.errors THEN acc
            ELSE [acc EXCEPT !.errors =
                     Put(@, acc.required[n],
                         RequiredError(acc.required[n], ozon_attrs,
                                       mappings, fpv))],
            ozon_attrs, mappings, fpv, n + 1)

\* _collect_attributes past get_mapped_values
CollectFrom(acc, o, ozon_attrs, attr_map, fpv, res, rows) ==
    LET a1 == AddResolvedValues(acc, ozon_attrs, res.values, 1, {})
        a2 == AddResolverErrors(a1, ozon_attrs, res)
        a3 == AddFallbackTags(a2, ozon_attrs, o)
        a4 == add_tn_ved_codes(a3, o, ozon_attrs, rows)
        a5 == [a4 EXCEPT !.required = RemoveFromRequired(@, TYPE_SOURCE_ID)]
    IN  Consolidate(a5, ozon_attrs, Mappings(EmptyMap, attr_map, 1), fpv, 1)

(***************************************************************************)
(* Inputs of _add_tn_ved_codes.                                            *)
(***************************************************************************)
MaxTnVedCodes == 2

TN_VED_DICTIONARY == 9

TnVedRow(value, source_id, deleted) ==
    [dictionary_id |-> TN_VED_DICTIONARY, value |-> value,
     source_id |-> source_id, deleted |-> deleted]

V_847130 == <<"8", "4", "7", "1", "3", "0", " ", "-", " ", "P", "C">>
V_8471 == <<"8", "4", "7", "1", " ", "-", " ", "M">>
V_8471300000 == <<"8", "4", "7", "1", " ", "3", "0", " ", "0", "0", "0", " ", "0">>
V_847100 == <<"8", "4", "7", "1", "0", "0">>
V_84713 == <<"8", "4", "7", "1", "3">>

TnVedCatalog ==
    <<TnVedRow(V_847130, 501, FALSE),
      TnVedRow(V_8471, 502, FALSE),
      TnVedRow(V_8471300000, 503, FALSE),
      TnVedRow(V_847100, 504, FALSE),
      TnVedRow(V_84713, 505, TRUE)>>

\* the rows of the catalog with an index in ids, in catalog order
RECURSIVE Pick(_, _, _)
Pick(catalog, ids, i) ==
    IF i > Len(catalog) THEN <<>>
    ELSE (IF i \in ids THEN <<catalog[i]>> ELSE <<>>)
         \o Pick(catalog, ids, i + 1)

Code_plain == <<"8", "4", "7", "1", "3", "0", "0", "0", "0", "0">>
Code_spaced == <<"8", "4", "7", "1", " ", "3", "0", " ", "0", "0", "0", " ", "0">>
Code_847 == <<"8", "4", "7">>
Code_84 == <<"8", "4">>
Code_9999 == <<"9", "9", "9", "9">>

OfferCodes == {Code_plain, Code_spaced, Code_847, Code_84, Code_9999}

TN_VED_ATTRIBUTE == "22232"

OzonAttribute(required, disabled, dictionary_id, name) ==
    [required |-> required, disabled |-> disabled,
     dictionary_id |-> dictionary_id, name |-> name]

TnVedName == <<"C", "o", "d", "e", " ", "T", "N", " ", "V", "E", "D">>

\* self._required_ozon_attributes as _collect_offer_parameters sets it
RequiredOf(ozon_attrs) ==
    LET ids == {x \in DOMAIN ozon_attrs : ozon_attrs[x].required}
    IN  CHOOSE r \in [1..Cardinality(ids) -> ids] : Injective(r)

TnVedInit ==
    /\ \E codes \in SeqsUpTo(OfferCodes, MaxTnVedCodes) :
          offer = [NoOffer EXCEPT !.tn_ved_codes = codes]
    /\ \E ids \in SUBSET (1..Len(TnVedCatalog)) :
          marketAttributeValues = Pick(TnVedCatalog, ids, 1)
    /\ \E required \in BOOLEAN, present \in BOOLEAN :
          ozon_attributes =
              [x \in (IF present THEN {TN_VED_ATTRIBUTE} ELSE {}) \cup {"85"}
                  |-> IF x = "85"
                      THEN OzonAttribute(TRUE, FALSE, 7, <<"B">>)
                      ELSE OzonAttribute(required, FALSE, TN_VED_DICTIONARY,
                                         TnVedName)]
    /\ attributes_values = EmptyMap
    /\ complex_attributes_values = EmptyMap
    /\ required_ozon_attributes = RequiredOf(ozon_attributes)
    /\ attributes_errors = EmptyMap
    /\ bpc = "idle"

AddTnVedCodes ==
    /\ bpc = "idle"
    /\ \E acc \in {add_tn_ved_codes(
                        Acc(attributes_values, complex_attributes_values,
                            required_ozon_attributes, attributes_errors),
                        offer, ozon_attributes, marketAttributeValues)} :
          /\ attributes_values' = acc.values
          /\ required_ozon_attributes' = acc.required
          /\ attributes_errors' = acc.errors
    /\ bpc' = "done"
    /\ UNCHANGED <<offer, marketAttributeValues, ozon_attributes,
                   complex_attributes_values>>
    /\ UNCHANGED <<unitVars, resolverVars, mapVars, restVars>>

(***************************************************************************)
(* Inputs of the resolver.                                                 *)
(***************************************************************************)
MaxMappings == 2
MaxRawValues == 2

VM_live == [k \in {T_BL} |-> <<ValueEntry(T_blue, 42, FALSE)>>]
VM_dead == [k \in {T_BL} |-> <<ValueEntry(T_red, 43, TRUE)>>]
VM_two ==
    [k \in {T_BL, T_R} |->
        IF k = T_BL
        THEN <<ValueEntry(T_blue, 42, FALSE), ValueEntry(T_red, 43, TRUE),
               ValueEntry(T_bl, 0, FALSE)>>
        ELSE <<ValueEntry(T_red, 43, TRUE)>>]

EntryCatalog ==
    <<MapEntry(1, "86", 7, "String", None, None, FALSE, VM_dead),
      MapEntry(2, "87", 7, "String", None, None, FALSE, VM_two),
      MapEntry(3, "90", None, "Integer", 1, 2, FALSE, EmptyMap),
      MapEntry(4, "91", None, "String", None, None, FALSE, EmptyMap),
      MapEntry(5, "92", 7, "String", None, None, TRUE, VM_live)>>

Buckets(n) ==
    {[k \in 1..Len(ids) |-> EntryCatalog[ids[k]]] :
        ids \in {s \in SeqsUpTo(1..Len(EntryCatalog), n) :
                    s # <<>> /\ Injective(s)}}

RawValues == {T_empty, T_bl, T_r, T_5, T_0c5}

ResolverUnitTables ==
    {<<>>,
     <<[value_unit_from_id |-> 1, value_unit_to_id |-> 2,
        multiplier |-> <<10, 1>>]>>,
     <<[value_unit_from_id |-> 2, value_unit_to_id |-> 1,
        multiplier |-> <<0, 1>>]>>}

ResolverInit ==
    /\ unitRows \in ResolverUnitTables
    /\ unit_map = EmptyMap
    /\ unitPc = "idle"
    /\ \E maps \in Buckets(MaxMappings) :
          attribute_map = <<[name |-> N1, maps |-> maps]>>
    /\ \E vs \in SeqsUpTo(RawValues, MaxRawValues) :
          /\ vs # <<>>
          /\ feed_attribute_values \in
                {<<[name |-> N1, values |-> vs]>>,
                 <<[name |-> N1, values |-> vs],
                   [name |-> N2, values |-> <<T_x>>]>>,
                 <<[name |-> N2, values |-> <<T_x>>],
                   [name |-> N1, values |-> vs]>>}
    /\ value_unit_map = EmptyMap
    /\ result = EmptyResult
    /\ pos = <<1, 1, 1>>
    /\ rpc = "idle"
    /\ visited = {}
    /\ prov = <<>>
    /\ MapIdle
    /\ BuilderIdle
    /\ RestIdle

(***************************************************************************)
(* Inputs of _collect_attributes: one marketplace attribute under study,   *)
(* optionally beside the Integer attribute "90", an attribute map over the *)
(* names N1, N2 and the model year, and a small family of offers.          *)
(***************************************************************************)
MaxBuilderMappings == 2
MaxParams == 1

StudiedAttributes == {"85", "90", "4180", "9024", "9048", "4497",
                      TYPE_SOURCE_ID, TN_VED_ATTRIBUTE}

AttributeDictionary(source_id) ==
    IF source_id = "85" THEN 7
    ELSE IF source_id = TN_VED_ATTRIBUTE THEN TN_VED_DICTIONARY
    ELSE None

AttributeName(source_id) ==
    IF source_id = TN_VED_ATTRIBUTE THEN TnVedName ELSE <<"A">>

\* the entry get_category_attribute_map builds for a mapping name -> target
BuilderEntry(mapping_id, name, target) ==
    MapEntry(mapping_id, target, AttributeDictionary(target),
             IF target = "90" THEN "Integer" ELSE "String",
             IF target = "90" /\ name = N2 THEN 1 ELSE None,
             IF target = "90" /\ name = N2 THEN 2 ELSE None,
             FALSE,
             IF target = "85" THEN VM_two ELSE EmptyMap)

RECURSIVE BuilderAttributeMap(_, _, _)
BuilderAttributeMap(attr_map, pairs, i) ==
    IF i > Len(pairs) THEN attr_map
    ELSE BuilderAttributeMap(
            SetEntry(attr_map, pairs[i][1],
                     BuilderEntry(i, pairs[i][1], pairs[i][2])),
            pairs, i + 1)

Param(name, text) == [name |-> name, text |-> text]

ParamCandidates ==
    {Param(<<"n", "1">>, T_bl), Param(<<" ", "N", "1">>, T_5),
     Param(<<"n", "2">>, T_5),
     Param(<<"M", "o", "d", "e", "l", "n", "y", "i", " ", "g", "o", "d">>, <<"2", "1", "-", "2", "2">>)}

Tag(tag, value) == [tag |-> tag, value |-> value]

IdTag == Tag(K_id, <<"7">>)

OfferShapes ==
    {[tags |-> <<IdTag>>, tn_ved_codes |-> <<>>],
     [tags |-> <<IdTag>>, tn_ved_codes |-> <<Code_plain>>],
     [tags |-> <<IdTag>>, tn_ved_codes |-> <<Code_9999>>],
     [tags |-> <<IdTag, Tag(K_name, <<"n", "m">>),
                 Tag(K_vendorCode, <<"v">>), Tag(K_weight, <<"1", ",", "5">>),
                 Tag(K_model, <<"m">>)>>,
      tn_ved_codes |-> <<>>],
     [tags |-> <<IdTag, Tag(K_vendorCode, <<>>)>>, tn_ved_codes |-> <<>>],
     [tags |-> <<IdTag, Tag(K_weight, <<"a", "b", "c">>)>>,
      tn_ved_codes |-> <<>>],
     [tags |-> <<IdTag, Tag(<<"n", "1">>, T_bl)>>, tn_ved_codes |-> <<>>]}

CmToMm == [value_unit_from_id |-> 1, value_unit_to_id |-> 2,
           multiplier |-> <<10, 1>>]

ZeroRow == [value_unit_from_id |-> 2, value_unit_to_id |-> 1,
            multiplier |-> <<0, 1>>]

BuilderInit ==
    /\ unitRows \in {<<CmToMm>>, <<ZeroRow>>}
    /\ unit_map = EmptyMap
    /\ unitPc = "idle"
    /\ \E studied \in StudiedAttributes, flags \in {<<FALSE, FALSE>>,
                                                   <<TRUE, FALSE>>,
                                                   <<TRUE, TRUE>>} :
          /\ ozon_attributes =
                [x \in {studied, "90"} |->
                    IF x = studied
                    THEN OzonAttribute(flags[1], flags[2],
                                       AttributeDictionary(x),
                                       AttributeName(x))
                    ELSE OzonAttribute(TRUE, FALSE, None, <<"A">>)]
          /\ \E pairs \in SeqsUpTo(({N1, N2} \X {studied, "90"})
                                      \cup {<<MODEL_YEAR_PARAM, "90">>},
                                  MaxBuilderMappings) :
                /\ Injective(pairs)
                /\ \A i \in 1..Len(pairs) :
                      ~ozon_attributes[pairs[i][2]].disabled
                /\ attribute_map = BuilderAttributeMap(<<>>, pairs, 1)
    /\ \E shape \in OfferShapes,
          param \in SeqsUpTo(ParamCandidates, MaxParams) :
          /\ unitRows = <<ZeroRow>> => shape.tags = <<IdTag>> /\ param = <<>>
          /\ offer = [tags |-> shape.tags, param |-> param,
                      tn_ved_codes |-> shape.tn_ved_codes]
    /\ marketAttributeValues = Pick(TnVedCatalog, {1, 2}, 1)
    /\ feed_attribute_values = <<>>
    /\ value_unit_map = EmptyMap
    /\ result = EmptyResult
    /\ pos = <<1, 1, 1>>
    /\ rpc = "idle"
    /\ visited = {}
    /\ prov = <<>>
    /\ attributes_values = EmptyMap
    /\ complex_attributes_values = EmptyMap
    /\ required_ozon_attributes = RequiredOf(ozon_attributes)
    /\ attributes_errors = EmptyMap
    /\ bpc = "idle"
    /\ MapIdle
    /\ RestIdle

\* _collect_attributes(offer), entered with the accumulators as
\* _collect_offer_parameters resets them
CollectAttributes ==
    /\ bpc = "idle"
    /\ get_unit_map(unitRows).ok
    /\ \E fpv \in {FeedParamsValues(offer)},
          attr_map \in {RekeyModelYear(attribute_map)} :
          \E mapped \in {get_mapped_values(attr_map, fpv, unitRows)} :
             \E acc \in {CollectFrom(
                            Acc(attributes_values, complex_attributes_values,
                                required_ozon_attributes, EmptyMap),
                            offer, ozon_attributes, attr_map, fpv,
                            mapped.result, marketAttributeValues)} :
                /\ attribute_map' = attr_map
                /\ feed_attribute_values' = fpv
                /\ value_unit_map' = get_unit_map(unitRows).map
                /\ result' = mapped.result
                /\ attributes_values' = acc.values
                /\ complex_attributes_values' = acc.complex
                /\ required_ozon_attributes' = acc.required
                /\ attributes_errors' = acc.errors
    /\ bpc' = "done"
    /\ UNCHANGED <<offer, marketAttributeValues, ozon_attributes>>
    /\ UNCHANGED <<pos, rpc, visited, prov>>
    /\ UNCHANGED <<unitVars, mapVars, restVars>>

\* get_unit_map divides by a zero multiplier: the exception leaves
\* _collect_attributes before any accumulator is written
CollectAttributesRaises ==
    /\ bpc = "idle"
    /\ ~get_unit_map(unitRows).ok
    /\ attribute_map' = RekeyModelYear(attribute_map)
    /\ bpc' = "ZeroDivisionError"
    /\ UNCHANGED <<offer, marketAttributeValues, ozon_attributes,
                   attributes_values, complex_attributes_values,
                   required_ozon_attributes, attributes_errors>>
    /\ UNCHANGED <<feed_attribute_values, value_unit_map, result, pos, rpc,
                   visited, prov>>
    /\ UNCHANGED <<unitVars, mapVars, restVars>>

(***************************************************************************)
(* collect_offer_import_params: _collect_offer_parameters runs on each     *)
(* offer of the batch in turn, on the attribute map and the marketplace    *)
(* attributes fetched once before the loop.  The tag errors are a function *)
(* from the tag's label to the error.                                      *)
(***************************************************************************)
MaxOffers == 2

MaxBatchMappings == 2

K_at_name == <<"@", "n", "a", "m", "e">>
K_picture == <<"p", "i", "c", "t", "u", "r", "e">>
K_vat == <<"v", "a", "t">>
K_price == <<"p", "r", "i", "c", "e">>

\* the accumulators of the previous offer carried into the next one
KeepAccumulators(acc, ozon_attrs) ==
    Acc(acc.values, acc.complex, RequiredOf(ozon_attrs), EmptyMap)

\* lines 122-128: the accumulators of the previous offer are dropped
ResetAccumulators(acc, ozon_attrs) ==
    Acc(EmptyMap, EmptyMap, RequiredOf(ozon_attrs), EmptyMap)

\* lines 130-142: '@name' as it is, else a non-empty 'name', else 'model'
OfferName(o) ==
    IF HasTag(o, K_at_name) THEN TagValue(o, K_at_name)
    ELSE IF Truthy(TagValue(o, K_name)) THEN TagValue(o, K_name)
    ELSE IF Truthy(TagValue(o, K_model)) THEN TagValue(o, K_model)
    ELSE <<>>

\* lines 139-168: the tag errors found before _collect_attributes;
\* parse_dimensions swallows every exception, so 'dimensions' is never a
\* 'bad_value'; a single picture stands for the list holding it
TagsErrorsBeforeAttributes(o) ==
    LET e1 == IF ~Truthy(OfferName(o))
              THEN Put(EmptyMap, "@name/name/model", "missing")
              ELSE EmptyMap
        e2 == IF ~Truthy(TagValue(o, K_dimensions))
              THEN Put(e1, "dimensions", "missing")
              ELSE e1
        e3 == IF ~ParseWeight(o).ok THEN Put(e2, "weight", "bad_value")
              ELSE e2
    IN  IF ~HasTag(o, K_picture) THEN Put(e3, "picture", "missing")
        ELSE IF ~Truthy(TagValue(o, K_picture))
        THEN Put(e3, "picture", "empty")
        ELSE e3

VAT_20 == <<"V", "A", "T", "_", "2", "0">>
NO_VAT == <<"N", "O", "_", "V", "A", "T">>
VAT_BY_CODE == {<<"5">>, <<"2">>, <<"7">>}

\* lines 178-190: the error of the 'vat' tag, "" for none
VatError(o) ==
    LET vat == IF HasTag(o, K_vat) THEN TagValue(o, K_vat) ELSE VAT_20
        parts == Split(vat, "_")
    IN  IF ~Truthy(vat) THEN "missing"
        ELSE IF vat = NO_VAT \/ vat \in VAT_BY_CODE THEN ""
        ELSE IF ParseInt(parts[Len(parts)]).ok THEN ""
        ELSE "bad_value"

\* lines 178-197: the tag errors found after _collect_attributes
TagsErrorsAfterAttributes(errors, o, category_deleted) ==
    LET e1 == IF VatError(o) # "" THEN Put(errors, "vat", VatError(o))
              ELSE errors
        e2 == IF ~HasTag(o, K_price) THEN Put(e1, "price", "missed")
              ELSE e1
    IN  IF category_deleted THEN Put(e2, "Kategoriya", "mapped_with_deleted")
        ELSE e2

\* lines 199-205 and add_name_to_complex_video: a video URL without a video
\* name gets the offer's name; the required list is not touched
AddNameToComplexVideo(acc, valid_name) ==
    IF VIDEO_URL_ID \in DOMAIN acc.complex
       /\ VIDEO_NAME_ID \notin DOMAIN acc.complex
    THEN [acc EXCEPT !.complex = Put(@, VIDEO_NAME_ID, <<valid_name>>)]
    ELSE acc

\* the dict with a ready_for_import that overlooks the tag errors
OfferInfoIgnoringTagsErrors(o, acc, errors) ==
    [name |-> remove_prohibited_characters(OfferName(o)),
     offer_id |-> TagValue(o, K_id),
     attributes |-> acc.values,
     complex_attributes |-> acc.complex,
     attributes_errors |-> acc.errors,
     tags_errors |-> errors,
     ready_for_import |-> acc.required = <<>>]

\* lines 207-233: the dict _collect_offer_parameters returns
OfferInfo(o, acc, errors) ==
    [name |-> remove_prohibited_characters(OfferName(o)),
     offer_id |-> TagValue(o, K_id),
     attributes |-> acc.values,
     complex_attributes |-> acc.complex,
     attributes_errors |-> acc.errors,
     tags_errors |-> errors,
     ready_for_import |-> acc.required = <<>> /\ errors = EmptyMap]

\* the only element of a one-element set
Only(S) == CHOOSE x \in S : TRUE

\* _collect_offer_parameters(o): the accumulators after the call and the
\* dict returned, from the accumulators and the attribute map before it;
\* each intermediate result is bound once: fpv, then the re-keyed map,
\* then the resolver's result, then the collected accumulators
CollectOfferParametersFrom(acc, o, ozon_attrs, attr_map, category_deleted, rows, units) ==
    Only({Only({Only({Only({
        LET named == AddNameToComplexVideo(
                        collected,
                        remove_prohibited_characters(OfferName(o)))
            errors == TagsErrorsAfterAttributes(
                        TagsErrorsBeforeAttributes(o), o, category_deleted)
        IN  [acc |-> named, attribute_map |-> rekeyed, fpv |-> fpv,
             result |-> mapped.result, tags_errors |-> errors,
             info |-> OfferInfo(o, named, errors)] :
        collected \in {CollectFrom(ResetAccumulators(acc, ozon_attrs), o,
                                   ozon_attrs, rekeyed, fpv, mapped.result,
                                   rows)}}) :
        mapped \in {get_mapped_values(rekeyed, fpv, units)}}) :
        rekeyed \in {RekeyModelYear(attr_map)}}) :
        fpv \in {FeedParamsValues(o)}})

\* one turn of the loop of collect_offer_import_params
CollectOfferParameters ==
    /\ bpc = "idle"
    /\ processed < Len(offers)
    /\ get_unit_map(unitRows).ok
    /\ \E out \in {CollectOfferParametersFrom(
                      Acc(attributes_values, complex_attributes_values,
                          required_ozon_attributes, attributes_errors),
                      offers[processed + 1], ozon_attributes, attribute_map,
                      market_category_deleted, marketAttributeValues,
                      unitRows)} :
          /\ attribute_map' = out.attribute_map
          /\ feed_attribute_values' = out.fpv
          /\ result' = out.result
          /\ attributes_values' = out.acc.values
          /\ complex_attributes_values' = out.acc.complex
          /\ required_ozon_attributes' = out.acc.required
          /\ attributes_errors' = out.acc.errors
          /\ tags_errors' = out.tags_errors
          /\ offer_import_params' = Append(offer_import_params, out.info)
    /\ value_unit_map' = get_unit_map(unitRows).map
    /\ offer' = offers[processed + 1]
    /\ processed' = processed + 1
    /\ bpc' = IF processed + 1 = Len(offers) THEN "done" ELSE "idle"
    /\ UNCHANGED <<marketAttributeValues, ozon_attributes>>
    /\ UNCHANGED <<offers, market_category_deleted, fetched_attribute_map>>
    /\ UNCHANGED <<pos, rpc, visited, prov>>
    /\ UNCHANGED <<unitVars, mapVars, storeVars, gcVars>>

\* get_unit_map divides by a zero multiplier: the exception leaves
\* _collect_offer_parameters and the loop; no list is returned
CollectOfferParametersRaises ==
    /\ bpc = "idle"
    /\ processed < Len(offers)
    /\ ~get_unit_map(unitRows).ok
    /\ attribute_map' = RekeyModelYear(attribute_map)
    /\ attributes_values' = EmptyMap
    /\ complex_attributes_values' = EmptyMap
    /\ required_ozon_attributes' = RequiredOf(ozon_attributes)
    /\ tags_errors' = TagsErrorsBeforeAttributes(offers[processed + 1])
    /\ offer' = offers[processed + 1]
    /\ bpc' = "ZeroDivisionError"
    /\ UNCHANGED <<marketAttributeValues, ozon_attributes, attributes_errors>>
    /\ UNCHANGED <<offers, processed, offer_import_params,
                   market_category_deleted, fetched_attribute_map>>
    /\ UNCHANGED <<feed_attribute_values, value_unit_map, result, pos, rpc,
                   visited, prov>>
    /\ UNCHANGED <<unitVars, mapVars, storeVars, gcVars>>

(***************************************************************************)
(* Inputs of collect_offer_import_params: a category with one marketplace  *)
(* attribute under study beside the required integer attribute "90" and    *)
(* the video URL, and a batch of offers.                                   *)
(***************************************************************************)
BatchStudiedAttributes == {"85", TYPE_SOURCE_ID, VIDEO_NAME_ID}

ValidTags ==
    <<IdTag, Tag(K_name, <<"n", "m">>),
      Tag(K_dimensions, <<"1", "/", "2", "/", "3">>),
      Tag(K_picture, <<"p">>), Tag(K_price, <<"9">>)>>

BatchOffers ==
    {[tags |-> ValidTags, param |-> <<Param(<<"n", "1">>, T_bl)>>,
      tn_ved_codes |-> <<>>],
     [tags |-> ValidTags, param |-> <<Param(<<"n", "1">>, T_5)>>,
      tn_ved_codes |-> <<>>],
     [tags |-> ValidTags,
      param |-> <<Param(<<"M", "o", "d", "e", "l", "n", "y", "i", " ", "g", "o", "d">>, <<"2", "1", "-", "2", "2">>)>>,
      tn_ved_codes |-> <<>>],
     [tags |-> <<IdTag, Tag(K_at_name, <<>>), Tag(K_picture, <<>>),
                 Tag(K_vat, <<"V", "A", "T", "_", "x">>),
                 Tag(K_weight, <<"a">>)>>,
      param |-> <<Param(<<"n", "1">>, T_5)>>, tn_ved_codes |-> <<>>],
     [tags |-> <<IdTag, Tag(K_model, <<"m">>), Tag(K_vat, <<>>)>>,
      param |-> <<>>, tn_ved_codes |-> <<>>]}

\* an offer with two parameters of one name: a multi-valued parameter
MultiValuedOffer ==
    [tags |-> ValidTags,
     param |-> <<Param(<<"n", "1">>, T_5), Param(<<"n", "1">>, T_bl)>>,
     tn_ved_codes |-> <<>>]

BatchInit ==
    /\ unitRows \in {<<CmToMm>>, <<ZeroRow>>}
    /\ unit_map = EmptyMap
    /\ unitPc = "idle"
    /\ \E studied \in BatchStudiedAttributes, required \in BOOLEAN :
          /\ ozon_attributes =
                [x \in {studied, "90", VIDEO_URL_ID} |->
                    IF x = studied
                    THEN OzonAttribute(required, FALSE,
                                       AttributeDictionary(x),
                                       AttributeName(x))
                    ELSE OzonAttribute(x = "90", FALSE, None, <<"A">>)]
          /\ \E pairs \in SeqsUpTo(({N1} \X {studied, "90", VIDEO_URL_ID})
                                      \cup {<<MODEL_YEAR_PARAM, "90">>},
                                  MaxBatchMappings) :
                /\ Injective(pairs)
                /\ attribute_map = BuilderAttributeMap(<<>>, pairs, 1)
          /\ unitRows = <<ZeroRow>> => studied = "85" /\ ~required
    /\ fetched_attribute_map = attribute_map
    /\ offers \in SeqsUpTo(BatchOffers, MaxOffers) \cup {<<MultiValuedOffer>>}
    /\ offers # <<>>
    /\ unitRows = <<ZeroRow>> => Len(offers) = 1
    /\ market_category_deleted \in BOOLEAN
    /\ unitRows = <<ZeroRow>> => ~market_category_deleted
    /\ market_category_deleted => Len(offers) = 1
    /\ processed = 0
    /\ offer_import_params = <<>>
    /\ tags_errors = EmptyMap
    /\ offer = NoOffer
    /\ marketAttributeValues = Pick(TnVedCatalog, {1, 2}, 1)
    /\ feed_attribute_values = <<>>
    /\ value_unit_map = EmptyMap
    /\ result = EmptyResult
    /\ pos = <<1, 1, 1>>
    /\ rpc = "idle"
    /\ visited = {}
    /\ prov = <<>>
    /\ attributes_values = EmptyMap
    /\ complex_attributes_values = EmptyMap
    /\ required_ozon_attributes = <<>>
    /\ attributes_errors = EmptyMap
    /\ bpc = "idle"
    /\ MapIdle
    /\ StoreIdle
    /\ GcIdle

(***************************************************************************)
(* The mapping tables and the operations that create mappings.  A table is *)
(* a function from the row's id to the row; a MarketCategoryAttribute row  *)
(* carries the fields of its MarketAttribute.  A query without an ORDER BY *)
(* returns its rows in an order the database chooses: the order is an      *)
(* input of the operation, a sequence that enumerates the table's ids.     *)
(***************************************************************************)
FeedCategory(feed_id) == [feed_id |-> feed_id]

FeedCategoryAttribute(category_id, name) ==
    [category_id |-> category_id, name |-> name]

FeedCategoryAttributeValue(attribute_id, value) ==
    [attribute_id |-> attribute_id, value |-> value]

MarketCategoryAttribute(category_id, map_equal_values, dictionary_id, default_value_id, map_feed_attribute_name, is_rich_content) ==
    [category_id |-> category_id, map_equal_values |-> map_equal_values,
     dictionary_id |-> dictionary_id, default_value_id |-> default_value_id,
     map_feed_attribute_name |-> map_feed_attribute_name,
     is_rich_content |-> is_rich_content]

MarketAttributeValue(dictionary_id, value, deleted) ==
    [dictionary_id |-> dictionary_id, value |-> value, deleted |-> deleted]

CategoryMap(feed_category_id, marketplace_category_id) ==
    [feed_category_id |-> feed_category_id,
     marketplace_category_id |-> marketplace_category_id]

AttributeMap(category_map_id, feed_attribute_id, marketplace_attribute_id) ==
    [category_map_id |-> category_map_id,
     feed_attribute_id |-> feed_attribute_id,
     marketplace_attribute_id |-> marketplace_attribute_id]

ValueMap(attribute_map_id, feed_attribute_value_id, marketplace_attribute_value_id) ==
    [attribute_map_id |-> attribute_map_id,
     feed_attribute_value_id |-> feed_attribute_value_id,
     marketplace_attribute_value_id |-> marketplace_attribute_value_id]

\* the tables as one value
Database ==
    [FeedCategory |-> FeedCategoryRows,
     FeedCategoryAttribute |-> FeedAttributeRows,
     FeedCategoryAttributeValue |-> FeedValueRows,
     MarketCategoryAttribute |-> MarketAttributeRows,
     MarketAttributeValue |-> MarketValueRows,
     CategoryMap |-> CategoryMapRows,
     AttributeMap |-> AttributeMapRows,
     ValueMap |-> ValueMapRows]

Maximum(S) == CHOOSE i \in S : \A j \in S : j <= i

\* the id the database gives to the next row of the table
NextId(rows) == IF DOMAIN rows = {} THEN 1 ELSE Maximum(DOMAIN rows) + 1

RECURSIVE SortedIds(_)
SortedIds(S) ==
    IF S = {} THEN <<>>
    ELSE LET first == CHOOSE i \in S : \A j \in S : i <= j
         IN  <<first>> \o SortedIds(S \ {first})

\* the orders in which a query may return the rows of the table
Orders(rows) ==
    {order \in [1..Cardinality(DOMAIN rows) -> DOMAIN rows] :
        Injective(order)}

Outcome(db, error) == [db |-> db, error |-> error]

\* AttributeMap.save() without the check of the feed attribute's category
AttributeMapSaveUnchecked(db, row) ==
    IF \/ \E id \in DOMAIN db.AttributeMap : db.AttributeMap[id] = row
       \/ row.marketplace_attribute_id
             \notin DOMAIN db.MarketCategoryAttribute
    THEN Outcome(db, "IntegrityError")
    ELSE Outcome([db EXCEPT !.AttributeMap = Put(@, NextId(@), row)], "")

\* AttributeMap.save() and the INSERT with its constraints: the write is
\* stored, or it raises and stores nothing
AttributeMapSave(db, row) ==
    IF \/ row.category_map_id \notin DOMAIN db.CategoryMap
       \/ row.feed_attribute_id \notin DOMAIN db.FeedCategoryAttribute
    THEN Outcome(db, "DoesNotExist")
    ELSE IF db.CategoryMap[row.category_map_id].feed_category_id
            # db.FeedCategoryAttribute[row.feed_attribute_id].category_id
    THEN Outcome(db, "ValidationError")
    ELSE IF \/ \E id \in DOMAIN db.AttributeMap : db.AttributeMap[id] = row
            \/ row.marketplace_attribute_id
                  \notin DOMAIN db.MarketCategoryAttribute
    THEN Outcome(db, "IntegrityError")
    ELSE Outcome([db EXCEPT !.AttributeMap = Put(@, NextId(@), row)], "")

\* ValueMap.save() and the INSERT with its constraints
ValueMapSave(db, row) ==
    IF row.attribute_map_id \notin DOMAIN db.AttributeMap
    THEN Outcome(db, "DoesNotExist")
    ELSE IF row.feed_attribute_value_id = None
    THEN Outcome(db, "AttributeError")
    ELSE IF row.feed_attribute_value_id
               \notin DOMAIN db.FeedCategoryAttributeValue
    THEN Outcome(db, "DoesNotExist")
    ELSE IF db.AttributeMap[row.attribute_map_id].feed_attribute_id
            # db.FeedCategoryAttributeValue[
                  row.feed_attribute_value_id].attribute_id
    THEN Outcome(db, "ValidationError")
    ELSE IF \/ \E id \in DOMAIN db.ValueMap : db.ValueMap[id] = row
            \/ /\ row.marketplace_attribute_value_id # None
               /\ row.marketplace_attribute_value_id
                     \notin DOMAIN db.MarketAttributeValue
    THEN Outcome(db, "IntegrityError")
    ELSE Outcome([db EXCEPT !.ValueMap = Put(@, NextId(@), row)], "")

\* dict(pairs): a later pair replaces the value of an equal key
RECURSIVE DictFrom(_, _, _)
DictFrom(dict, pairs, n) ==
    IF n > Len(pairs) THEN dict
    ELSE LET key == pairs[n][1]
         IN  DictFrom(
                IF \E i \in 1..Len(dict) : dict[i][1] = key
                THEN [i \in 1..Len(dict) |->
                         IF dict[i][1] = key THEN pairs[n] ELSE dict[i]]
                ELSE Append(dict, pairs[n]),
                pairs, n + 1)

\* dict.get(key), None when the key is absent
DictGet(dict, key) ==
    IF \E i \in 1..Len(dict) : dict[i][1] = key
    THEN dict[CHOOSE i \in 1..Len(dict) : dict[i][1] = key][2]
    ELSE None

\* all([map_equal_values, dictionary_id]) of the mapping's marketplace
\* attribute
Qualifies(db, attribute_map_id) ==
    LET attribute == db.MarketCategoryAttribute[
                        db.AttributeMap[attribute_map_id]
                            .marketplace_attribute_id]
    IN  attribute.map_equal_values /\ attribute.dictionary_id # None

\* the (UPPER(value), id) pairs of the rows the query returns, in its order
UpperPairs(rows, order, ids) ==
    LET Selected(id) == id \in ids
        selected == SelectSeq(order, Selected)
    IN  [n \in 1..Len(selected) |->
            <<Upper(rows[selected[n]].value), selected[n]>>]

\* lines 328-340: the feed values of the mapped attribute without a
\* ValueMap under this mapping, as a dict from the uppercased text
UnmappedFeedValuesDict(db, attribute_map_id, feed_order) ==
    LET mapped == {db.ValueMap[id].feed_attribute_value_id :
                      id \in {i \in DOMAIN db.ValueMap :
                                 db.ValueMap[i].attribute_map_id
                                    = attribute_map_id}}
        feed_attribute_id == db.AttributeMap[attribute_map_id]
                                 .feed_attribute_id
    IN  DictFrom(<<>>,
                 UpperPairs(db.FeedCategoryAttributeValue, feed_order,
                            {id \in DOMAIN db.FeedCategoryAttributeValue :
                                /\ db.FeedCategoryAttributeValue[id]
                                       .attribute_id = feed_attribute_id
                                /\ id \notin mapped}),
                 1)

\* lines 342-350: the live values of the dictionary, as a dict from the
\* uppercased text
MarketplaceValuesDict(db, dictionary_id, market_order) ==
    DictFrom(<<>>,
             UpperPairs(db.MarketAttributeValue, market_order,
                        {id \in DOMAIN db.MarketAttributeValue :
                            /\ db.MarketAttributeValue[id].dictionary_id
                                  = dictionary_id
                            /\ ~db.MarketAttributeValue[id].deleted}),
             1)

\* lines 352-362: one ValueMap.objects.create per unmapped feed value that
\* has an equal marketplace value or a default; each create is committed
\* on its own, so a create that raises leaves the earlier ones stored;
\* fail_at numbers the create the database fails, 0 for none
RECURSIVE CreateEqualValues(_, _, _, _, _, _, _, _)
CreateEqualValues(db, attribute_map_id, feed_values, marketplace_values, default_value_id, n, created, fail_at) ==
    IF n > Len(feed_values) THEN Outcome(db, "")
    ELSE LET found == DictGet(marketplace_values, feed_values[n][1])
             marketplace_value_id ==
                IF found # None THEN found ELSE default_value_id
             saved == ValueMapSave(
                         db, ValueMap(attribute_map_id, feed_values[n][2],
                                      marketplace_value_id))
         IN  IF marketplace_value_id = None
             THEN CreateEqualValues(db, attribute_map_id, feed_values,
                                    marketplace_values, default_value_id,
                                    n + 1, created, fail_at)
             ELSE IF created + 1 = fail_at
             THEN Outcome(db, "OperationalError")
             ELSE IF saved.error # "" THEN saved
             ELSE CreateEqualValues(saved.db, attribute_map_id, feed_values,
                                    marketplace_values, default_value_id,
                                    n + 1, created + 1, fail_at)

\* map_attribute_equal_values(attribute_map_id)
map_attribute_equal_values(db, attribute_map_id, feed_order, market_order, fail_at) ==
    LET attribute == db.MarketCategoryAttribute[
                        db.AttributeMap[attribute_map_id]
                            .marketplace_attribute_id]
    IN  IF ~Qualifies(db, attribute_map_id) THEN Outcome(db, "")
        ELSE CreateEqualValues(
                db, attribute_map_id,
                UnmappedFeedValuesDict(db, attribute_map_id, feed_order),
                MarketplaceValuesDict(db, attribute.dictionary_id,
                                      market_order),
                attribute.default_value_id, 1, 0, fail_at)

\* get_both_values_for_unmapped, lines 247-261: the mappings of the feed
\* whose marketplace attribute has map_equal_values and a dictionary
QualifyingMaps(db, feed_id) ==
    {id \in DOMAIN db.AttributeMap :
        /\ db.FeedCategory[
              db.FeedCategoryAttribute[db.AttributeMap[id].feed_attribute_id]
                  .category_id].feed_id = feed_id
        /\ Qualifies(db, id)}

\* lines 273-281: the feed values of the mapped attributes that have no
\* ValueMap under any of the qualifying mappings
UnmappedFeedValues(db, attr_maps) ==
    {id \in DOMAIN db.FeedCategoryAttributeValue :
        /\ \E m \in attr_maps :
              db.FeedCategoryAttributeValue[id].attribute_id
                 = db.AttributeMap[m].feed_attribute_id
        /\ ~\E v \in DOMAIN db.ValueMap :
              /\ db.ValueMap[v].attribute_map_id \in attr_maps
              /\ db.ValueMap[v].feed_attribute_value_id = id}

\* get_equal_values for one mapping: each unmapped feed value with the
\* first marketplace value of equal uppercased text
RECURSIVE EqualValuesOf(_, _, _, _)
EqualValuesOf(attribute_map_id, feed_values, mp_values, n) ==
    IF n > Len(feed_values) THEN <<>>
    ELSE LET Equal(i) == mp_values[i][1] = feed_values[n][1]
             rest == EqualValuesOf(attribute_map_id, feed_values, mp_values,
                                   n + 1)
         IN  IF \E i \in 1..Len(mp_values) : Equal(i)
             THEN <<ValueMap(attribute_map_id, feed_values[n][2],
                             mp_values[CHOOSE i \in 1..Len(mp_values) :
                                          /\ Equal(i)
                                          /\ \A j \in 1..(i - 1) : ~Equal(j)
                                      ][2])>> \o rest
             ELSE rest

\* get_equal_values(get_both_values_for_unmapped(feed_id)): the rows to
\* create, mapping after mapping
RECURSIVE get_equal_values(_, _, _, _, _, _)
get_equal_values(db, attr_maps, unmapped, feed_order, market_order, n) ==
    IF n > Len(attr_maps) THEN <<>>
    ELSE LET m == db.AttributeMap[attr_maps[n]]
             dictionary_id ==
                db.MarketCategoryAttribute[m.marketplace_attribute_id]
                    .dictionary_id
             feed_values ==
                UpperPairs(db.FeedCategoryAttributeValue, feed_order,
                           {id \in unmapped :
                               db.FeedCategoryAttributeValue[id].attribute_id
                                  = m.feed_attribute_id})
             mp_values ==
                UpperPairs(db.MarketAttributeValue, market_order,
                           {id \in DOMAIN db.MarketAttributeValue :
                               /\ db.MarketAttributeValue[id].dictionary_id
                                     = dictionary_id
                               /\ ~db.MarketAttributeValue[id].deleted})
         IN  EqualValuesOf(attr_maps[n], feed_values, mp_values, 1)
             \o get_equal_values(db, attr_maps, unmapped, feed_order,
                                 market_order, n + 1)

\* the loop of create_val_mappings: get_or_create of each row
RECURSIVE GetOrCreateEach(_, _, _, _, _)
GetOrCreateEach(db, rows, n, created, fail_at) ==
    IF n > Len(rows) THEN Outcome(db, "")
    ELSE IF \E id \in DOMAIN db.ValueMap : db.ValueMap[id] = rows[n]
    THEN GetOrCreateEach(db, rows, n + 1, created, fail_at)
    ELSE IF created + 1 = fail_at THEN Outcome(db, "OperationalError")
    ELSE LET saved == ValueMapSave(db, rows[n])
         IN  IF saved.error # "" THEN saved
             ELSE GetOrCreateEach(saved.db, rows, n + 1, created + 1,
                                  fail_at)

\* create_val_mappings under @transaction.atomic: an exception rolls every
\* row of the call back
create_val_mappings(db, rows, fail_at) ==
    LET done == GetOrCreateEach(db, rows, 1, 0, fail_at)
    IN  IF done.error # "" THEN Outcome(db, done.error) ELSE done

\* map_attribute_equal_values_v2(feed_id)
map_attribute_equal_values_v2(db, feed_id, feed_order, market_order, fail_at) ==
    LET attr_maps == QualifyingMaps(db, feed_id)
    IN  create_val_mappings(
           db,
           get_equal_values(db, SortedIds(attr_maps),
                            UnmappedFeedValues(db, attr_maps),
                            feed_order, market_order, 1),
           fail_at)

\* pre_create_rich_attribute: the category gets the rich-content attribute
\* unless it has it
pre_create_rich_attribute(db, category_map_id) ==
    LET category_id == db.CategoryMap[category_map_id]
                           .marketplace_category_id
    IN  IF \E id \in DOMAIN db.MarketCategoryAttribute :
              /\ db.MarketCategoryAttribute[id].category_id = category_id
              /\ db.MarketCategoryAttribute[id].is_rich_content
        THEN db
        ELSE [db EXCEPT
                !.MarketCategoryAttribute =
                    Put(@, NextId(@),
                        MarketCategoryAttribute(category_id, FALSE, None,
                                                None, TNone, TRUE))]

\* lines 391-401: the category's marketplace attributes that are not mapped
\* yet and name a feed attribute, as a dict from that name
AttributesNeedToMap(db, category_map_id, link_order) ==
    LET mapped == {db.AttributeMap[id].marketplace_attribute_id :
                      id \in {i \in DOMAIN db.AttributeMap :
                                 db.AttributeMap[i].category_map_id
                                    = category_map_id}}
        Needed(id) ==
            /\ db.MarketCategoryAttribute[id].category_id
                  = db.CategoryMap[category_map_id].marketplace_category_id
            /\ id \notin mapped
            /\ Truthy(db.MarketCategoryAttribute[id].map_feed_attribute_name)
        needed == SelectSeq(link_order, Needed)
    IN  DictFrom(<<>>,
                 [n \in 1..Len(needed) |->
                     <<db.MarketCategoryAttribute[needed[n]]
                           .map_feed_attribute_name, needed[n]>>],
                 1)

\* lines 406-416: an AttributeMap for each feed attribute of the feed
\* category whose name equals the marketplace attribute's, letter case
\* aside, and the equal-value auto-mapper on it; pairs lists the
\* (marketplace attribute, feed attribute) pairs in the loops' order
RECURSIVE MapByNameEach(_, _, _, _, _, _, _)
MapByNameEach(db, category_map_id, pairs, n, feed_order, market_order, fail_at) ==
    IF n > Len(pairs) THEN Outcome(db, "")
    ELSE LET saved == AttributeMapSave(
                         db, AttributeMap(category_map_id, pairs[n][2],
                                          pairs[n][1]))
             attribute_map_id == Maximum(DOMAIN saved.db.AttributeMap)
             mapped == map_attribute_equal_values(
                          saved.db, attribute_map_id, feed_order,
                          market_order, fail_at)
         IN  IF saved.error # "" THEN saved
             ELSE IF mapped.error # "" THEN mapped
             ELSE MapByNameEach(mapped.db, category_map_id, pairs, n + 1,
                                feed_order, market_order, fail_at)

RECURSIVE NamePairs(_, _, _, _, _)
NamePairs(db, category_map_id, needed, n, attribute_order) ==
    IF n > Len(needed) THEN <<>>
    ELSE LET Named(id) ==
                /\ db.FeedCategoryAttribute[id].category_id
                      = db.CategoryMap[category_map_id].feed_category_id
                /\ Upper(db.FeedCategoryAttribute[id].name)
                      = Upper(needed[n][1])
             named == SelectSeq(attribute_order, Named)
         IN  [i \in 1..Len(named) |-> <<needed[n][2], named[i]>>]
             \o NamePairs(db, category_map_id, needed, n + 1,
                          attribute_order)

\* map_attributes_by_name(category_map_id)
map_attributes_by_name(db, category_map_id, link_order, attribute_order, feed_order, market_order, fail_at) ==
    LET with_rich == pre_create_rich_attribute(db, category_map_id)
    IN  MapByNameEach(with_rich, category_map_id,
                      NamePairs(with_rich, category_map_id,
                                AttributesNeedToMap(with_rich,
                                                    category_map_id,
                                                    link_order),
                                1, attribute_order),
                      1, feed_order, market_order, fail_at)

\* copy_mapping, lines 787-809: the ValueMaps of one AttributeMap, each
\* with a copy of its feed value under the new feed attribute
RECURSIVE CopyValueMaps(_, _, _, _, _, _)
CopyValueMaps(db, ids, n, new_attribute_id, new_attribute_map_id, new_feed_values) ==
    IF n > Len(ids) THEN Outcome(db, "")
    ELSE LET value_map == db.ValueMap[ids[n]]
             old_value_id == value_map.feed_attribute_value_id
             copied == old_value_id \in DOMAIN new_feed_values
             new_value_id ==
                IF copied THEN new_feed_values[old_value_id]
                ELSE NextId(db.FeedCategoryAttributeValue)
             with_value ==
                IF copied THEN db
                ELSE [db EXCEPT
                        !.FeedCategoryAttributeValue =
                            Put(@, new_value_id,
                                [@[old_value_id] EXCEPT
                                    !.attribute_id = new_attribute_id])]
             saved == ValueMapSave(
                         with_value,
                         ValueMap(new_attribute_map_id, new_value_id,
                                  value_map.marketplace_attribute_value_id))
         IN  IF old_value_id = None THEN Outcome(db, "AttributeError")
             ELSE IF saved.error # "" THEN saved
             ELSE CopyValueMaps(saved.db, ids, n + 1, new_attribute_id,
                                new_attribute_map_id,
                                Put(new_feed_values, old_value_id,
                                    new_value_id))

\* copy_mapping, lines 766-809: the AttributeMaps of one CategoryMap, each
\* with a copy of its feed attribute under the new feed category
RECURSIVE CopyAttributeMaps(_, _, _, _, _, _)
CopyAttributeMaps(db, ids, n, old_ids, new_category_map_id, new_feed_attributes) ==
    IF n > Len(ids) THEN Outcome(db, "")
    ELSE LET attr_map == db.AttributeMap[ids[n]]
             old_attribute_id == attr_map.feed_attribute_id
             copied == old_attribute_id \in DOMAIN new_feed_attributes
             new_attribute_id ==
                IF copied THEN new_feed_attributes[old_attribute_id]
                ELSE NextId(db.FeedCategoryAttribute)
             with_attribute ==
                IF copied THEN db
                ELSE [db EXCEPT
                        !.FeedCategoryAttribute =
                            Put(@, new_attribute_id,
                                [@[old_attribute_id] EXCEPT
                                    !.category_id =
                                        db.CategoryMap[new_category_map_id]
                                            .feed_category_id])]
             saved == AttributeMapSave(
                         with_attribute,
                         AttributeMap(new_category_map_id, new_attribute_id,
                                      attr_map.marketplace_attribute_id))
             values == CopyValueMaps(
                          saved.db,
                          SortedIds({v \in old_ids.ValueMap :
                                        db.ValueMap[v].attribute_map_id
                                           = ids[n]}),
                          1, new_attribute_id,
                          Maximum(DOMAIN saved.db.AttributeMap), <<>>)
         IN  IF saved.error # "" THEN saved
             ELSE IF values.error # "" THEN values
             ELSE CopyAttributeMaps(values.db, ids, n + 1, old_ids,
                                    new_category_map_id,
                                    Put(new_feed_attributes,
                                        old_attribute_id, new_attribute_id))

\* copy_mapping, lines 759-809: the CategoryMaps of the feed, each with a
\* copy of its feed category under the new feed
RECURSIVE CopyCategoryMaps(_, _, _, _, _, _)
CopyCategoryMaps(db, ids, n, old_ids, to_feed_id, new_category_ids) ==
    IF n > Len(ids) THEN Outcome(db, "")
    ELSE LET category_map == db.CategoryMap[ids[n]]
             old_category_id == category_map.feed_category_id
             copied == old_category_id \in DOMAIN new_category_ids
             new_category_id ==
                IF copied THEN new_category_ids[old_category_id]
                ELSE NextId(db.FeedCategory)
             with_category ==
                IF copied THEN db
                ELSE [db EXCEPT
                        !.FeedCategory =
                            Put(@, new_category_id,
                                FeedCategory(to_feed_id))]
             new_category_map_id == NextId(db.CategoryMap)
             with_map ==
                [with_category EXCEPT
                    !.CategoryMap =
                        Put(@, new_category_map_id,
                            CategoryMap(new_category_id,
                                        category_map
                                            .marketplace_category_id))]
             attributes == CopyAttributeMaps(
                              with_map,
                              SortedIds({a \in old_ids.AttributeMap :
                                            db.AttributeMap[a].category_map_id
                                               = ids[n]}),
                              1, old_ids, new_category_map_id, <<>>)
         IN  IF attributes.error # "" THEN attributes
             ELSE CopyCategoryMaps(attributes.db, ids, n + 1, old_ids,
                                   to_feed_id,
                                   Put(new_category_ids, old_category_id,
                                       new_category_id))

\* FeedMappingsCopyView.post: copy_mapping(from_feed_id, to_feed_id) in
\* one transaction
copy_mapping(db, from_feed_id, to_feed_id) ==
    LET done == CopyCategoryMaps(
                   db,
                   SortedIds({c \in DOMAIN db.CategoryMap :
                                 db.FeedCategory[
                                     db.CategoryMap[c].feed_category_id
                                 ].feed_id = from_feed_id}),
                   1,
                   [AttributeMap |-> DOMAIN db.AttributeMap,
                    ValueMap |-> DOMAIN db.ValueMap],
                   to_feed_id, <<>>)
    IN  IF done.error # "" THEN Outcome(db, done.error) ELSE done

(***************************************************************************)
(* The calls that create mappings: the editor's views, the auto-mappers    *)
(* run by the feed fetcher, and the copy of a feed's mappings.  The row    *)
(* orders of the queries and the create the database fails are inputs.     *)
(***************************************************************************)
MaxCalls == 3

MaxFeeds == 2

Reverse(s) == [i \in 1..Len(s) |-> s[Len(s) + 1 - i]]

\* the row orders tried: by id, ascending and descending
QueryOrders(rows) ==
    {SortedIds(DOMAIN rows), Reverse(SortedIds(DOMAIN rows))}

\* the live marketplace values of the model differ in their uppercased
\* texts and no two marketplace attributes name the same feed attribute:
\* the order of these rows does not matter
IdOrder(rows) == {SortedIds(DOMAIN rows)}

EditedFeedValues ==
    {id \in DOMAIN FeedValueRows :
        \A other \in DOMAIN FeedValueRows :
           FeedValueRows[other].attribute_id = FeedValueRows[id].attribute_id
              => id <= other}

\* the creates the database may fail: none or the second
FailurePoints == {0, 2}

Feeds == {FeedCategoryRows[id].feed_id : id \in DOMAIN FeedCategoryRows}

MarketCategories ==
    {MarketAttributeRows[id].category_id : id \in DOMAIN MarketAttributeRows}

Call(name, arg, error) == [name |-> name, arg |-> arg, error |-> error]

\* the call ends: the tables are as it leaves them
Returns(out, name, arg) ==
    /\ calls < MaxCalls
    /\ calls' = calls + 1
    /\ FeedCategoryRows' = out.db.FeedCategory
    /\ FeedAttributeRows' = out.db.FeedCategoryAttribute
    /\ FeedValueRows' = out.db.FeedCategoryAttributeValue
    /\ MarketAttributeRows' = out.db.MarketCategoryAttribute
    /\ MarketValueRows' = out.db.MarketAttributeValue
    /\ CategoryMapRows' = out.db.CategoryMap
    /\ AttributeMapRows' = out.db.AttributeMap
    /\ ValueMapRows' = out.db.ValueMap
    /\ last_call' = Call(name, arg, out.error)
    /\ rows_before' = [AttributeMap |-> AttributeMapRows,
                       ValueMap |-> ValueMapRows]
    /\ UNCHANGED <<unitVars, resolverVars, mapVars, builderVars, batchVars,
                   gcVars>>

\* CategoryMapViewSet.create: the CategoryMap, then map_attributes_by_name
CategoryMapCreate ==
    \E feed_category_id \in DOMAIN FeedCategoryRows,
       marketplace_category_id \in MarketCategories,
       link_order \in IdOrder(MarketAttributeRows),
       feed_order \in QueryOrders(FeedValueRows),
       market_order \in IdOrder(MarketValueRows),
       fail_at \in FailurePoints :
       LET row == CategoryMap(feed_category_id, marketplace_category_id)
           category_map_id == NextId(CategoryMapRows)
       IN  IF \E id \in DOMAIN CategoryMapRows : CategoryMapRows[id] = row
           THEN Returns(Outcome(Database, "IntegrityError"),
                        "CategoryMapViewSet.create", None)
           ELSE Returns(
                   map_attributes_by_name(
                      [Database EXCEPT
                          !.CategoryMap = Put(@, category_map_id, row)],
                      category_map_id, link_order,
                      SortedIds(DOMAIN FeedAttributeRows), feed_order,
                      market_order, fail_at),
                   "CategoryMapViewSet.create", None)

\* AttributeMapViewSet.create: the AttributeMap, then
\* map_attribute_equal_values on it
AttributeMapCreate ==
    \E category_map_id \in DOMAIN CategoryMapRows,
       feed_attribute_id \in DOMAIN FeedAttributeRows,
       marketplace_attribute_id \in {1, 2},
       feed_order \in QueryOrders(FeedValueRows),
       market_order \in IdOrder(MarketValueRows),
       fail_at \in FailurePoints :
       LET saved == AttributeMapSave(
                       Database,
                       AttributeMap(category_map_id, feed_attribute_id,
                                    marketplace_attribute_id))
           attribute_map_id == NextId(AttributeMapRows)
       IN  IF saved.error # ""
           THEN Returns(saved, "AttributeMapViewSet.create", None)
           ELSE Returns(map_attribute_equal_values(
                           saved.db, attribute_map_id, feed_order,
                           market_order, fail_at),
                        "AttributeMapViewSet.create", attribute_map_id)

\* ValueMapViewSet.create; the editor maps the first feed value of a feed
\* attribute to the first marketplace value
ValueMapCreate ==
    \E attribute_map_id \in DOMAIN AttributeMapRows,
       feed_attribute_value_id \in EditedFeedValues,
       marketplace_attribute_value_id \in {1} :
       Returns(ValueMapSave(
                  Database,
                  ValueMap(attribute_map_id, feed_attribute_value_id,
                           marketplace_attribute_value_id)),
               "ValueMapViewSet.create", None)

\* map_values: map_attribute_equal_values on one mapping
MapAttributeEqualValues ==
    \E attribute_map_id \in DOMAIN AttributeMapRows,
       feed_order \in QueryOrders(FeedValueRows),
       market_order \in IdOrder(MarketValueRows),
       fail_at \in FailurePoints :
       Returns(map_attribute_equal_values(Database, attribute_map_id,
                                          feed_order, market_order, fail_at),
               "map_attribute_equal_values", attribute_map_id)

\* feed_attributes_fetcher_main: map_attribute_equal_values_v2 on one feed
MapAttributeEqualValuesV2 ==
    \E feed_id \in Feeds,
       feed_order \in QueryOrders(FeedValueRows),
       market_order \in IdOrder(MarketValueRows),
       fail_at \in FailurePoints :
       Returns(map_attribute_equal_values_v2(Database, feed_id, feed_order,
                                             market_order, fail_at),
               "map_attribute_equal_values_v2", feed_id)

\* FeedMappingsCopyView.post: a new feed with a copy of the mappings
CopyMapping ==
    /\ Cardinality(Feeds) < MaxFeeds
    /\ \E from_feed_id \in Feeds :
          Returns(copy_mapping(Database, from_feed_id, Maximum(Feeds) + 1),
                  "copy_mapping", from_feed_id)

(***************************************************************************)
(* Inputs of the mapping calls: two feed categories of one feed with a     *)
(* feed attribute each, a marketplace category with two attributes over    *)
(* one dictionary, and the mappings an editor has made before.             *)
(***************************************************************************)
T_c == <<"c">>
T_C == <<"C">>
T_Bl == <<"B", "l">>
T_dflt == <<"d", "f", "l", "t">>

\* the first marketplace attribute: map_equal_values, dictionary_id,
\* default_value_id (9 is the id of no marketplace value)
StudiedLinks ==
    {<<TRUE, 7, None>>, <<TRUE, 7, 3>>, <<TRUE, 7, 9>>, <<FALSE, 7, 3>>,
     <<TRUE, None, 3>>}

StoreInit ==
    /\ FeedCategoryRows = <<FeedCategory(1), FeedCategory(1)>>
    /\ FeedAttributeRows = <<FeedCategoryAttribute(1, T_c),
                             FeedCategoryAttribute(2, T_C)>>
    /\ FeedValueRows \in
          {<<FeedCategoryAttributeValue(1, T_bl),
             FeedCategoryAttributeValue(1, T_BL),
             FeedCategoryAttributeValue(2, T_bl)>>,
           <<FeedCategoryAttributeValue(1, T_bl),
             FeedCategoryAttributeValue(1, T_x),
             FeedCategoryAttributeValue(2, T_bl)>>}
    /\ \E link \in StudiedLinks :
          MarketAttributeRows =
             <<MarketCategoryAttribute(5, link[1], link[2], link[3], T_c,
                                       FALSE),
               MarketCategoryAttribute(5, TRUE, 7, None, TNone, FALSE)>>
    /\ MarketValueRows =
          <<MarketAttributeValue(7, T_Bl, FALSE),
            MarketAttributeValue(7, T_x, TRUE),
            MarketAttributeValue(7, T_dflt, FALSE)>>
    /\ CategoryMapRows = <<CategoryMap(1, 5)>>
    /\ AttributeMapRows \in
          {<<>>, <<AttributeMap(1, 1, 1)>>,
           <<AttributeMap(1, 1, 1), AttributeMap(1, 1, 2)>>}
    /\ ValueMapRows = <<>>
    /\ calls = 0
    /\ last_call = NoCall
    /\ rows_before = [AttributeMap |-> AttributeMapRows,
                      ValueMap |-> ValueMapRows]

\* ---------------------------------------------------------------------
\* The garbage collector: prepare_objects_for_delete.py and
\* delete_outdated_objects.py.  A table is a function from the ids of
\* its rows to the rows; a collection is the sequence of its documents,
\* each an id with the timestamp of the pass that scheduled it.
\* ---------------------------------------------------------------------

\* the longest run of operations explored
MaxPasses == 4

MarketCategoryRow(parent, deleted) ==
    [parent |-> parent, deleted |-> deleted]

MarketCategoryAttributeRow(category, attribute, deleted) ==
    [category |-> category, attribute |-> attribute, deleted |-> deleted]

MarketAttributeRow(dictionary, deleted) ==
    [dictionary |-> dictionary, deleted |-> deleted]

MarketAttributeValueDictionaryRow(deleted) ==
    [deleted |-> deleted]

MarketAttributeValueRow(dictionary, deleted) ==
    [dictionary |-> dictionary, deleted |-> deleted]

TableNames ==
    {"mp_categories", "mp_category_attributes", "mp_attributes",
     "mp_dictionaries", "mp_values"}

\* the rows of a table other than those with the given ids
Without(table, ids) == [x \in DOMAIN table \ ids |-> table[x]]

DeletedIds(table) == {x \in DOMAIN table : table[x].deleted}

\* QuerySet.update(deleted=flag) on the rows with the given ids
UpdateDeleted(table, ids, flag) ==
    [x \in DOMAIN table |->
        IF x \in ids THEN [table[x] EXCEPT !.deleted = flag] ELSE table[x]]

\* a document of a collection of scheduled ids
Document(id, timestamp) == [id |-> id, timestamp |-> timestamp]

\* the ids that have a document in the collection
ScheduledIds(collection) == {collection[i].id : i \in DOMAIN collection}

\* collection.delete_many({'id': {'$in': ids}})
DeleteMany(collection, ids) ==
    SelectSeq(collection, LAMBDA doc : doc.id \notin ids)

\* the documents inserted for the given ids, in the order of the ids
RECURSIVE DeletionObjects(_, _)
DeletionObjects(ids, date_prepared) ==
    IF ids = {} THEN <<>>
    ELSE LET first == CHOOSE i \in ids : \A j \in ids : i <= j
         IN  <<Document(first, date_prepared)>>
                 \o DeletionObjects(ids \ {first}, date_prepared)

\* the mutation under which every id is inserted again by every pass
mongo_garbage_insert_again(collection, ids, date_prepared) ==
    collection \o DeletionObjects(ids, date_prepared)

\* only the ids that have no document yet are inserted, with the date of
\* this pass
mongo_garbage_insert(collection, ids, date_prepared) ==
    collection \o DeletionObjects(ids \ ScheduledIds(collection),
                                  date_prepared)

prepare_mp_category(st, date_prepared) ==
    [st EXCEPT !.mongo.mp_categories =
        mongo_garbage_insert(@, DeletedIds(st.base.mp_categories),
                             date_prepared)]

prepare_mp_category_attributes(st, date_prepared) ==
    LET links == st.base.mp_category_attributes
        hit == {x \in DOMAIN links :
                  /\ ~links[x].deleted
                  /\ \/ st.base.mp_categories[links[x].category].deleted
                     \/ st.base.mp_attributes[links[x].attribute].deleted}
        updated == UpdateDeleted(links, hit, TRUE)
    IN  [st EXCEPT !.base.mp_category_attributes = updated,
                   !.mongo.mp_category_attributes =
                       mongo_garbage_insert(@, DeletedIds(updated),
                                            date_prepared)]

prepare_mp_attributes(st, date_prepared) ==
    LET attributes == st.base.mp_attributes
        links == st.base.mp_category_attributes
        hit == {a \in DOMAIN attributes :
                  /\ ~attributes[a].deleted
                  /\ ~\E x \in DOMAIN links :
                        links[x].attribute = a /\ ~links[x].deleted}
        updated == UpdateDeleted(attributes, hit, TRUE)
    IN  [st EXCEPT !.base.mp_attributes = updated,
                   !.mongo.mp_attributes =
                       mongo_garbage_insert(@, DeletedIds(updated),
                                            date_prepared)]

\* the mutation under which the attributes counted are the deleted ones
prepare_mp_dictionaries_counting_deleted(st, date_prepared) ==
    LET dictionaries == st.base.mp_dictionaries
        attributes == st.base.mp_attributes
        hit == {d \in DOMAIN dictionaries :
                  /\ ~dictionaries[d].deleted
                  /\ ~\E a \in DOMAIN attributes :
                        /\ attributes[a].dictionary = d
                        /\ attributes[a].deleted}
        updated == UpdateDeleted(dictionaries, hit, TRUE)
    IN  [st EXCEPT !.base.mp_dictionaries = updated,
                   !.mongo.mp_dictionaries =
                       mongo_garbage_insert(@, DeletedIds(updated),
                                            date_prepared)]

prepare_mp_dictionaries(st, date_prepared) ==
    LET dictionaries == st.base.mp_dictionaries
        attributes == st.base.mp_attributes
        hit == {d \in DOMAIN dictionaries :
                  /\ ~dictionaries[d].deleted
                  /\ ~\E a \in DOMAIN attributes :
                        /\ attributes[a].dictionary = d
                        /\ ~attributes[a].deleted}
        updated == UpdateDeleted(dictionaries, hit, TRUE)
    IN  [st EXCEPT !.base.mp_dictionaries = updated,
                   !.mongo.mp_dictionaries =
                       mongo_garbage_insert(@, DeletedIds(updated),
                                            date_prepared)]

prepare_mp_values(st, date_prepared) ==
    LET values == st.base.mp_values
        hit == {v \in DOMAIN values :
                  /\ ~values[v].deleted
                  /\ st.base.mp_dictionaries[values[v].dictionary].deleted}
        updated == UpdateDeleted(values, hit, TRUE)
    IN  [st EXCEPT !.base.mp_values = updated,
                   !.mongo.mp_values =
                       mongo_garbage_insert(@, DeletedIds(updated),
                                            date_prepared)]

\* the mutation under which the values are prepared first
prepare_mapper_objects_for_deletion_values_first(st, prepared_date) ==
    prepare_mp_dictionaries(
      prepare_mp_attributes(
        prepare_mp_category_attributes(
          prepare_mp_category(
            prepare_mp_values(st, prepared_date),
            prepared_date),
          prepared_date),
        prepared_date),
      prepared_date)

prepare_mapper_objects_for_deletion(st, prepared_date) ==
    prepare_mp_values(
      prepare_mp_dictionaries(
        prepare_mp_attributes(
          prepare_mp_category_attributes(
            prepare_mp_category(st, prepared_date),
            prepared_date),
          prepared_date),
        prepared_date),
      prepared_date)

\* the scheduled ids whose timestamp is before the threshold
Outdated(collection, deletion_threshold) ==
    {collection[i].id : i \in {j \in DOMAIN collection :
                                  collection[j].timestamp < deletion_threshold}}

\* the categories below the given ones, the given ones included
RECURSIVE WithChildren(_, _)
WithChildren(categories, ids) ==
    LET children == {c \in DOMAIN categories : categories[c].parent \in ids}
    IN  IF children \subseteq ids THEN ids
        ELSE WithChildren(categories, ids \cup children)

\* QuerySet.delete(): the rows are removed with every row that refers
\* to them through a foreign key, all of which are on_delete=CASCADE
Delete(db, categories, links, attributes, dictionaries, values) ==
    LET gone_categories == WithChildren(db.mp_categories, categories)
        gone_values ==
            values \cup {v \in DOMAIN db.mp_values :
                            db.mp_values[v].dictionary \in dictionaries}
        gone_attributes ==
            attributes \cup {a \in DOMAIN db.mp_attributes :
                                db.mp_attributes[a].dictionary \in dictionaries}
        gone_links ==
            links \cup {x \in DOMAIN db.mp_category_attributes :
                \/ db.mp_category_attributes[x].category \in gone_categories
                \/ db.mp_category_attributes[x].attribute \in gone_attributes}
    IN  [mp_categories |-> Without(db.mp_categories, gone_categories),
         mp_category_attributes |->
             Without(db.mp_category_attributes, gone_links),
         mp_attributes |-> Without(db.mp_attributes, gone_attributes),
         mp_dictionaries |-> Without(db.mp_dictionaries, dictionaries),
         mp_values |-> Without(db.mp_values, gone_values)]

delete_mp_attribute_values(st, deletion_threshold) ==
    LET ids == Outdated(st.mongo.mp_values, deletion_threshold)
        rows == ids \cap DeletedIds(st.base.mp_values)
    IN  [base |-> Delete(st.base, {}, {}, {}, {}, rows),
         mongo |-> [st.mongo EXCEPT !.mp_values = DeleteMany(@, ids)]]

delete_mp_dictionaries(st, deletion_threshold) ==
    LET ids == Outdated(st.mongo.mp_dictionaries, deletion_threshold)
        rows == {d \in ids \cap DeletedIds(st.base.mp_dictionaries) :
                    ~\E v \in DOMAIN st.base.mp_values :
                        st.base.mp_values[v].dictionary = d}
    IN  [base |-> Delete(st.base, {}, {}, {}, rows, {}),
         mongo |-> [st.mongo EXCEPT !.mp_dictionaries = DeleteMany(@, ids)]]

delete_mp_category_attributes(st, deletion_threshold) ==
    LET ids == Outdated(st.mongo.mp_category_attributes, deletion_threshold)
        rows == ids \cap DeletedIds(st.base.mp_category_attributes)
    IN  [base |-> Delete(st.base, {}, rows, {}, {}, {}),
         mongo |-> [st.mongo EXCEPT
                       !.mp_category_attributes = DeleteMany(@, ids)]]

delete_mp_attributes(st, deletion_threshold) ==
    LET ids == Outdated(st.mongo.mp_attributes, deletion_threshold)
        rows == ids \cap DeletedIds(st.base.mp_attributes)
    IN  [base |-> Delete(st.base, {}, {}, rows, {}, {}),
         mongo |-> [st.mongo EXCEPT !.mp_attributes = DeleteMany(@, ids)]]

delete_mp_category(st, deletion_threshold) ==
    LET ids == Outdated(st.mongo.mp_categories, deletion_threshold)
        rows == ids \cap DeletedIds(st.base.mp_categories)
    IN  [base |-> Delete(st.base, rows, {}, {}, {}, {}),
         mongo |-> [st.mongo EXCEPT !.mp_categories = DeleteMany(@, ids)]]

delete_prepared_objects(st, deletion_threshold) ==
    delete_mp_category(
      delete_mp_attributes(
        delete_mp_category_attributes(
          delete_mp_dictionaries(
            delete_mp_attribute_values(st, deletion_threshold),
            deletion_threshold),
          deletion_threshold),
        deletion_threshold),
      deletion_threshold)

\* ---------------------------------------------------------------------
\* The garbage collector's operations
\* ---------------------------------------------------------------------

Pass(name, table, ids, date) ==
    [name |-> name, table |-> table, ids |-> ids, date |-> date]

\* the history of the soft-deletions after an operation: a row that is
\* not soft-deleted has no date, a soft-deleted row without a date gets
\* the date of the prepare pass that sees it, and a row that is removed
\* keeps the date it had
SoftDeletedSince(db, pass) ==
    [table \in TableNames |->
        [x \in DOMAIN soft_deleted_since[table] |->
            IF x \notin DOMAIN db[table] THEN soft_deleted_since[table][x]
            ELSE IF ~db[table][x].deleted THEN 0
            ELSE IF soft_deleted_since[table][x] # 0
                 THEN soft_deleted_since[table][x]
            ELSE IF pass.name = "prepare" THEN pass.date
            ELSE 0]]

\* one operation has run and left the tables and collections of st
Ran(st, pass) ==
    /\ passes < MaxPasses
    /\ passes' = passes + 1
    /\ base' = st.base
    /\ mongo' = st.mongo
    /\ last_pass' = pass
    /\ before_pass' = [base |-> base, mongo |-> mongo]
    /\ soft_deleted_since' = SoftDeletedSince(st.base, pass)
    /\ UNCHANGED state_first
    /\ UNCHANGED <<unitVars, resolverVars, mapVars, builderVars, batchVars,
                   storeVars>>

\* a synchronisation with the marketplace soft-deletes one row
SetDeleted ==
    \E table \in TableNames :
      \E id \in DOMAIN base[table] :
        /\ ~base[table][id].deleted
        /\ Ran([base |-> [base EXCEPT ![table] =
                             UpdateDeleted(@, {id}, TRUE)],
                mongo |-> mongo],
               Pass("set_deleted", table, {id}, clock))
        /\ UNCHANGED clock

\* a synchronisation restores one soft-deleted row, or all of them
Restore ==
    \/ \E table \in TableNames :
         \E id \in DeletedIds(base[table]) :
           /\ Ran([base |-> [base EXCEPT ![table] =
                                UpdateDeleted(@, {id}, FALSE)],
                   mongo |-> mongo],
                  Pass("restore", table, {id}, clock))
           /\ UNCHANGED clock
    \/ /\ \E table \in TableNames : DeletedIds(base[table]) # {}
       /\ Ran([base |-> [table \in TableNames |->
                            UpdateDeleted(base[table], DOMAIN base[table],
                                          FALSE)],
               mongo |-> mongo],
              Pass("restore", "", {}, clock))
       /\ UNCHANGED clock

\* the prepare pass, run at the present time
PrepareMapperObjectsForDeletion ==
    /\ Ran(prepare_mapper_objects_for_deletion(
               [base |-> base, mongo |-> mongo], clock),
           Pass("prepare", "", {}, clock))
    /\ clock' = clock + 1

\* the delete pass, with a threshold of the past or of the present
DeletePreparedObjects ==
    \E deletion_threshold \in 1..clock :
      /\ Ran(delete_prepared_objects([base |-> base, mongo |-> mongo],
                                     deletion_threshold),
             Pass("delete", "", {}, deletion_threshold))
      /\ UNCHANGED clock

\* the rows of load_mappings: the categories 'pc components', 'gpu' and
\* 'cpu', the attributes 'power consumption', 'cpu_manufacturer' and
\* 'gpu_manufacturer', their links, dictionaries and values
load_mappings ==
    [mp_categories |->
        <<MarketCategoryRow(None, FALSE), MarketCategoryRow(1, FALSE),
          MarketCategoryRow(1, FALSE)>>,
     mp_attributes |->
        <<MarketAttributeRow(None, FALSE), MarketAttributeRow(1, FALSE),
          MarketAttributeRow(2, FALSE)>>,
     mp_category_attributes |->
        <<MarketCategoryAttributeRow(2, 1, FALSE),
          MarketCategoryAttributeRow(3, 1, FALSE),
          MarketCategoryAttributeRow(3, 2, FALSE),
          MarketCategoryAttributeRow(2, 3, FALSE)>>,
     mp_dictionaries |->
        <<MarketAttributeValueDictionaryRow(FALSE),
          MarketAttributeValueDictionaryRow(FALSE)>>,
     mp_values |->
        <<MarketAttributeValueRow(1, FALSE), MarketAttributeValueRow(1, FALSE),
          MarketAttributeValueRow(2, FALSE), MarketAttributeValueRow(2, FALSE),
          MarketAttributeValueRow(2, FALSE)>>]

\* the tables as loaded, or as they are after the category 'cpu' was
\* soft-deleted and one prepare pass ran
GcStates ==
    {[base |-> load_mappings, mongo |-> NoRows],
     prepare_mapper_objects_for_deletion(
         [base |-> [load_mappings EXCEPT
                       !.mp_categories = UpdateDeleted(@, {3}, TRUE)],
          mongo |-> NoRows], 1)}

GcInit ==
    /\ state_first = load_mappings
    /\ \E st \in GcStates :
          /\ base = st.base
          /\ mongo = st.mongo
          /\ clock = IF st.mongo = NoRows THEN 1 ELSE 2
          /\ soft_deleted_since =
                [table \in TableNames |->
                    [x \in DOMAIN st.base[table] |->
                        IF st.base[table][x].deleted THEN 1 ELSE 0]]
    /\ passes = 0
    /\ last_pass = NoPass
    /\ before_pass = [base |-> base, mongo |-> mongo]

(***************************************************************************)
(* The lookup pipeline of collect_offer_import_params: the attribute map   *)
(* is built from the stored mappings by get_category_attribute_map, then   *)
(* _collect_attributes resolves the parameters of one offer against it.    *)
(* The feed attribute 'n1' or ' N1' is mapped onto the dictionary-backed   *)
(* attribute "85" or onto the attribute "90", whose link to the category   *)
(* is soft-deleted; one stored feed value leads to the live value 'blue'.  *)
(***************************************************************************)
T_bl_space == <<"b", "l", " ">>
T_b_l == <<"b", " ", "l">>
T_b_nbsp_l == <<"b", NBSP, "l">>

\* the texts of the stored feed value and of the offer's parameter
LookupValues == {T_bl, T_BL, T_bl_space, T_b_l, T_b_nbsp_l}

\* the names of the offer's parameter
LookupNames == {<<"n", "1">>, <<" ", "N", "1">>, <<"n", "1", NBSP>>}

LookupInit ==
    /\ unitRows = <<CmToMm>>
    /\ unit_map = EmptyMap
    /\ unitPc = "idle"
    /\ ResolverIdle
    /\ \E feed_attribute_id \in {1, 2}, marketplace_attribute_id \in {1, 2},
          feed_value \in LookupValues :
          /\ attributeMaps =
                WithPk(<<[category_map_id |-> 1,
                          feed_attribute_id |-> feed_attribute_id,
                          marketplace_attribute_id |->
                              marketplace_attribute_id]>>)
          /\ valueMaps =
                IF marketplace_attribute_id = 1
                  THEN <<[attribute_map_id |-> 1,
                          feed_attribute_value |->
                              [value |-> feed_value,
                               attribute_id |-> feed_attribute_id],
                          marketplace_attribute_value |->
                              [value |-> T_blue, source_id |-> 42,
                               deleted |-> FALSE]]>>
                  ELSE <<>>
    /\ category_mapping_id = 1
    /\ mapPc = "idle"
    /\ \E name \in LookupNames, text \in LookupValues :
          offer = [tags |-> <<IdTag>>, param |-> <<Param(name, text)>>,
                   tn_ved_codes |-> <<>>]
    /\ \E required \in BOOLEAN :
          ozon_attributes =
              [x \in {"85", "90"} |->
                  IF x = "85"
                    THEN OzonAttribute(TRUE, FALSE, 7, <<"A">>)
                    ELSE OzonAttribute(required, FALSE, None, <<"B">>)]
    /\ marketAttributeValues = <<>>
    /\ attributes_values = EmptyMap
    /\ complex_attributes_values = EmptyMap
    /\ required_ozon_attributes = RequiredOf(ozon_attributes)
    /\ attributes_errors = EmptyMap
    /\ bpc = "idle"
    /\ RestIdle

\* _collect_offer_parameters runs once the attribute map is fetched
CollectAttributesOnFetchedMap ==
    /\ mapPc = "done"
    /\ CollectAttributes

SpecUnitInit ==
    /\ UnitInit
    /\ ResolverIdle
    /\ MapIdle
    /\ BuilderIdle
    /\ RestIdle

SpecUnitNext ==
    \/ GetUnitMap /\ UNCHANGED <<resolverVars, mapVars, builderVars, restVars>>
    \/ GetUnitMapRaises /\ UNCHANGED <<resolverVars, mapVars, builderVars, restVars>>

SpecUnit == SpecUnitInit /\ [][SpecUnitNext]_vars

SpecResolverNext ==
    \/ ResolverStart
    \/ ResolverStartRaises
    \/ ResolveUnmappedName
    \/ ResolveSkipDeleted
    \/ ResolveEmpty
    \/ ResolveDictMiss
    \/ ResolveDictHit
    \/ ResolveTypeError
    \/ ResolveConverted
    \/ ResolvePlain
    \/ ResolverReturn

SpecResolver == ResolverInit /\ [][SpecResolverNext]_vars

SpecMapInit ==
    /\ UnitIdle
    /\ ResolverIdle
    /\ MapInit
    /\ BuilderIdle
    /\ RestIdle

SpecMapNext ==
    \/ GetCategoryAttributeMap

SpecMap == SpecMapInit /\ [][SpecMapNext]_vars

SpecTnVedInit ==
    /\ UnitIdle
    /\ ResolverIdle
    /\ MapIdle
    /\ TnVedInit
    /\ RestIdle

SpecTnVedNext ==
    \/ AddTnVedCodes

SpecTnVed == SpecTnVedInit /\ [][SpecTnVedNext]_vars

SpecBuilderInit ==
    /\ BuilderInit

SpecBuilderNext ==
    \/ CollectAttributes
    \/ CollectAttributesRaises

SpecBuilder == SpecBuilderInit /\ [][SpecBuilderNext]_vars

SpecBatchInit ==
    /\ BatchInit

SpecBatchNext ==
    \/ CollectOfferParameters
    \/ CollectOfferParametersRaises

SpecBatch == SpecBatchInit /\ [][SpecBatchNext]_vars

SpecStoreInit ==
    /\ UnitIdle
    /\ ResolverIdle
    /\ MapIdle
    /\ BuilderIdle
    /\ BatchIdle
    /\ StoreInit
    /\ GcIdle

SpecStoreNext ==
    \/ CategoryMapCreate
    \/ AttributeMapCreate
    \/ ValueMapCreate
    \/ MapAttributeEqualValues
    \/ MapAttributeEqualValuesV2
    \/ CopyMapping

SpecStore == SpecStoreInit /\ [][SpecStoreNext]_vars

SpecGcInit ==
    /\ UnitIdle
    /\ ResolverIdle
    /\ MapIdle
    /\ BuilderIdle
    /\ BatchIdle
    /\ StoreIdle
    /\ GcInit

SpecGcNext ==
    \/ SetDeleted
    \/ Restore
    \/ PrepareMapperObjectsForDeletion
    \/ DeletePreparedObjects

SpecGc == SpecGcInit /\ [][SpecGcNext]_vars

SpecLookupInit ==
    /\ LookupInit

SpecLookupNext ==
    \/ GetCategoryAttributeMap
    \/ CollectAttributesOnFetchedMap

SpecLookup == SpecLookupInit /\ [][SpecLookupNext]_vars

(***************************************************************************)
(* Properties of the resolver.                                             *)
(***************************************************************************)
ValueAt(p) == feed_attribute_values[p[1]].values[p[2]]
MappingAt(p) == Bucket(attribute_map, feed_attribute_values[p[1]].name)[p[3]]
EmittedBy(p) == {n \in 1..Len(prov) : prov[n] = p}
LiveEntries(p) ==
    {n \in 1..Len(MappingAt(p).values_map[Upper(ValueAt(p))]) :
        ~MappingAt(p).values_map[Upper(ValueAt(p))][n].deleted}

\* C1: an empty raw value under a non-deleted mapping puts the mapping's
\* marketplace attribute source id into empty_value_attributes and emits no
\* assignment for that raw value under that mapping.
C1_EmptyValueRecorded ==
    \A p \in visited :
        (ValueAt(p) = T_empty /\ ~MappingAt(p).deleted) =>
            /\ MappingAt(p).source_id \in Range(result.empty_value_attributes)
            /\ EmittedBy(p) = {}

C1_Witness ==
    /\ rpc = "done"
    /\ \E p \in visited : ValueAt(p) = T_empty /\ ~MappingAt(p).deleted
    /\ result.values # <<>>

\* C2: a non-empty raw value whose uppercased text is no key of the values_map
\* of a non-deleted dictionary-backed mapping puts the source id into
\* unmapped_value_attributes and emits no assignment under that mapping.
C2_UnmappedValueRecorded ==
    \A p \in visited :
        (/\ ~MappingAt(p).deleted
         /\ MappingAt(p).dictionary_id # None
         /\ ValueAt(p) # T_empty
         /\ Upper(ValueAt(p)) \notin DOMAIN MappingAt(p).values_map) =>
            /\ MappingAt(p).source_id
                   \in Range(result.unmapped_value_attributes)
            /\ EmittedBy(p) = {}

C2_Witness ==
    /\ rpc = "done"
    /\ \E p \in visited :
          /\ ~MappingAt(p).deleted
          /\ MappingAt(p).dictionary_id # None
          /\ ValueAt(p) = T_r
          /\ T_R \notin DOMAIN MappingAt(p).values_map
    /\ result.values # <<>>

\* C3: on a hit in the values_map of a non-deleted dictionary-backed mapping,
\* one assignment is emitted per non-deleted value-map entry, and when every
\* matching entry is deleted the source id is recorded in
\* mapped_with_deleted_value, for each (raw value, mapping) pair.
C3_HitEmitsOrRecordsDeleted ==
    \A p \in visited :
        (/\ ~MappingAt(p).deleted
         /\ MappingAt(p).dictionary_id # None
         /\ ValueAt(p) # T_empty
         /\ Upper(ValueAt(p)) \in DOMAIN MappingAt(p).values_map) =>
            /\ Cardinality(EmittedBy(p)) = Cardinality(LiveEntries(p))
            /\ LiveEntries(p) = {} =>
                   MappingAt(p).source_id
                       \in Range(result.mapped_with_deleted_value)

\* C5: a stored conversion with factor 0 does not make the resolver crash.
C5_ZeroFactorNoCrash ==
    (\E i \in 1..Len(unitRows) : IsZero(unitRows[i].multiplier)) =>
        rpc # "ZeroDivisionError"

\* C7: with (cm, mm) -> 10 in the index, a non-dictionary mapping from cm to
\* mm and the raw value "5" emit exactly one assignment, of value "50" and
\* dictionary_value_id 0.
C7_FiveCmIsFiftyMm ==
    \A p \in visited :
        (/\ ValueAt(p) = T_5
         /\ ~MappingAt(p).deleted
         /\ MappingAt(p).dictionary_id = None
         /\ MappingAt(p).from_unit_id = 1
         /\ MappingAt(p).to_unit_id = 2
         /\ <<1, 2>> \in DOMAIN value_unit_map
         /\ value_unit_map[<<1, 2>>] = <<10, 1>>) =>
            /\ Cardinality(EmittedBy(p)) = 1
            /\ \A n \in EmittedBy(p) :
                  /\ result.values[n].value = <<"5", "0">>
                  /\ result.values[n].dictionary_value_id = 0

(***************************************************************************)
(* Properties of the unit conversion index.                                *)
(***************************************************************************)
ReverseStored(i) ==
    \E j \in 1..Len(unitRows) :
        /\ unitRows[j].value_unit_from_id = unitRows[i].value_unit_to_id
        /\ unitRows[j].value_unit_to_id = unitRows[i].value_unit_from_id

HasBothDirections(i) ==
    LET u == unitRows[i].value_unit_from_id
        v == unitRows[i].value_unit_to_id
    IN  /\ <<u, v>> \in DOMAIN unit_map
        /\ <<v, u>> \in DOMAIN unit_map
        /\ unit_map[<<u, v>>] = unitRows[i].multiplier
        /\ RatMul(unit_map[<<v, u>>], unitRows[i].multiplier) = <<1, 1>>

\* C4 (as stated): every stored row (u, v, f) gives (u, v) -> f and
\* (v, u) -> 1/f in the index, whatever other rows are stored.
C4_EveryRowBothDirections ==
    unitPc = "done" => \A i \in 1..Len(unitRows) : HasBothDirections(i)

\* C4 (amended): when get_unit_map returns, every stored row (u, v, f) for
\* whose reverse ordered pair (v, u) no row is stored gives (u, v) -> f and
\* (v, u) -> 1/f in the index, whatever other rows are stored.
C4_RowWithoutReverseBothDirections ==
    unitPc = "done" =>
        \A i \in 1..Len(unitRows) : ~ReverseStored(i) => HasBothDirections(i)

C4_Witness ==
    /\ unitPc = "done"
    /\ Len(unitRows) = 2
    /\ \E i \in 1..Len(unitRows) :
          ~ReverseStored(i) /\ unitRows[i].multiplier = <<10, 1>>

(***************************************************************************)
(* Properties of the category attribute map.                               *)
(***************************************************************************)
RowName(i) ==
    normalize_string(FeedAttributes[attributeMaps[i].feed_attribute_id].name)

HasEntry(i) ==
    \E b \in 1..Len(attribute_map) :
        /\ attribute_map[b].name = RowName(i)
        /\ \E k \in 1..Len(attribute_map[b].maps) :
              /\ attribute_map[b].maps[k].mapping_id = attributeMaps[i].pk
              /\ attribute_map[b].maps[k].source_id =
                     MarketCategoryAttributes[
                         attributeMaps[i].marketplace_attribute_id]
                         .attribute.source_id

\* C6: the attribute map of category mapping c has an entry, under the
\* normalized feed attribute name and the mapping id, for exactly the
\* AttributeMappings of c whose marketplace attribute is not disabled; no
\* AttributeMapping gives the empty map, and a name mapped to two marketplace
\* attributes keeps both entries.
C6_EntriesAreEnabledMappings ==
    mapPc = "done" =>
        /\ \A i \in 1..Len(attributeMaps) :
              HasEntry(i) <=>
                  /\ attributeMaps[i].category_map_id = category_mapping_id
                  /\ ~MarketCategoryAttributes[
                          attributeMaps[i].marketplace_attribute_id]
                          .attribute.disabled
        /\ \A b \in 1..Len(attribute_map) :
              /\ \A c \in 1..Len(attribute_map) :
                    attribute_map[b].name = attribute_map[c].name => b = c
              /\ \A k \in 1..Len(attribute_map[b].maps) :
                    /\ attribute_map[b].maps[k].mapping_id
                           \in 1..Len(attributeMaps)
                    /\ RowName(attribute_map[b].maps[k].mapping_id)
                           = attribute_map[b].name
                    /\ \A l \in 1..Len(attribute_map[b].maps) :
                          attribute_map[b].maps[k].mapping_id
                              = attribute_map[b].maps[l].mapping_id => k = l
        /\ (\A i \in 1..Len(attributeMaps) :
               attributeMaps[i].category_map_id # category_mapping_id)
              => attribute_map = <<>>

C6_Witness ==
    /\ mapPc = "done"
    /\ Len(attributeMaps) = 2
    /\ attributeMaps[1].feed_attribute_id # attributeMaps[2].feed_attribute_id
    /\ attributeMaps[1].marketplace_attribute_id
           # attributeMaps[2].marketplace_attribute_id
    /\ Len(attribute_map) = 1
    /\ Len(attribute_map[1].maps) = 2

(***************************************************************************)
(* Properties of the customs code matching.                                *)
(***************************************************************************)
IsPrefix(a, b) == Len(a) <= Len(b) /\ SubSeq(b, 1, Len(a)) = a

LiveTnVedRows ==
    {i \in 1..Len(marketAttributeValues) : ~marketAttributeValues[i].deleted}

\* the dictionary rows whose extracted code is a prefix, of length at least
\* 4, of the digits of an offer code
PrefixRows(code) ==
    {i \in LiveTnVedRows :
        /\ Len(extract_tn_ved_code(marketAttributeValues[i].value)) >= 4
        /\ IsPrefix(extract_tn_ved_code(marketAttributeValues[i].value),
                    RemoveChar(code, " "))}

LongestPrefixRow(code) ==
    CHOOSE i \in PrefixRows(code) :
        \A j \in PrefixRows(code) :
            Len(extract_tn_ved_code(marketAttributeValues[j].value))
                <= Len(extract_tn_ved_code(marketAttributeValues[i].value))

Assigned(source_id, value, dictionary_value_id) ==
    /\ source_id \in DOMAIN attributes_values
    /\ \E n \in 1..Len(attributes_values[source_id]) :
          /\ attributes_values[source_id][n].value = value
          /\ attributes_values[source_id][n].dictionary_value_id
                 = dictionary_value_id

HasSpace(code) == \E k \in 1..Len(code) : code[k] = " "

\* C10: for an offer customs code written with separator spaces and a
\* customs-code attribute whose dictionary holds an entry whose extracted code
\* is a prefix (of length at least 4) of the code's digits, the dictionary
\* value of the longest such prefix is assigned to the attribute.
C10_SpacedCodeMatchesLongestPrefix ==
    bpc = "done" =>
        \A n \in 1..Len(offer.tn_ved_codes) :
            (/\ TN_VED_ATTRIBUTE \in DOMAIN ozon_attributes
             /\ HasSpace(offer.tn_ved_codes[n])
             /\ PrefixRows(offer.tn_ved_codes[n]) # {}) =>
                Assigned(TN_VED_ATTRIBUTE,
                    marketAttributeValues[
                        LongestPrefixRow(offer.tn_ved_codes[n])].value,
                    marketAttributeValues[
                        LongestPrefixRow(offer.tn_ved_codes[n])].source_id)

(***************************************************************************)
(* Properties of the final errors of _collect_attributes.                  *)
(***************************************************************************)
Required(source_id) == ozon_attributes[source_id].required

Disabled(source_id) == ozon_attributes[source_id].disabled

HasValue(source_id) == source_id \in DOMAIN attributes_values

FinalError(source_id, error) ==
    /\ source_id \in DOMAIN attributes_errors
    /\ attributes_errors[source_id] = error

\* the names of the attribute map with a mapping that targets source_id
MappingNames(source_id) ==
    {attribute_map[b].name :
        b \in {c \in 1..Len(attribute_map) :
                  \E k \in 1..Len(attribute_map[c].maps) :
                      attribute_map[c].maps[k].source_id = source_id}}

\* no parameter and no tag of the offer carries a name mapped to source_id
NoMappedNameOnOffer(source_id) ==
    \A name \in MappingNames(source_id) :
        ~HasFeedName(feed_attribute_values, name)

WeightIsNoNumber == ~ParseWeight(offer).ok

\* the fallback tag of source_id is absent, or is a weight that is no number
FallbackTagFails(source_id) ==
    \/ source_id \in Range(OZON_ATTRIBUTES_IDS.name)
          /\ FallbackName(offer) = TNone
    \/ source_id \in Range(OZON_ATTRIBUTES_IDS.vendorCode)
          /\ ~HasTag(offer, K_vendorCode)
    \/ source_id \in Range(OZON_ATTRIBUTES_IDS.model)
          /\ ~HasTag(offer, K_model)
    \/ source_id \in Range(OZON_ATTRIBUTES_IDS.weight) /\ WeightIsNoNumber

\* C8: every required marketplace attribute that is the target of a mapping
\* in the attribute map and receives no value, while the offer carries no
\* parameter or tag with a mapped feed attribute name, ends with the error
\* "missing".
C8_MappedAbsentNameIsMissing ==
    bpc = "done" =>
        \A source_id \in DOMAIN ozon_attributes :
            (/\ Required(source_id)
             /\ MappingNames(source_id) # {}
             /\ ~HasValue(source_id)
             /\ NoMappedNameOnOffer(source_id)) =>
                FinalError(source_id, "missing")

\* C8, amended: the same holds for every such attribute other than the type
\* attribute 8229, unless an earlier step has recorded another error for it:
\* "bad_value" for the weight attribute when the offer's weight is no number,
\* "not_found" for a customs-code attribute when the offer carries customs
\* codes.
C8_MappedAbsentNameIsMissingUnlessEarlierError ==
    bpc = "done" =>
        \A source_id \in DOMAIN ozon_attributes :
            (/\ Required(source_id)
             /\ MappingNames(source_id) # {}
             /\ ~HasValue(source_id)
             /\ NoMappedNameOnOffer(source_id)
             /\ source_id # TYPE_SOURCE_ID
             /\ ~(source_id \in Range(OZON_ATTRIBUTES_IDS.weight)
                     /\ WeightIsNoNumber)
             /\ ~(source_id \in TnVedAttributes(ozon_attributes)
                     /\ offer.tn_ved_codes # <<>>)) =>
                FinalError(source_id, "missing")

C8_Witness ==
    /\ bpc = "done"
    /\ \E source_id \in DOMAIN ozon_attributes \ {TYPE_SOURCE_ID} :
          /\ Required(source_id)
          /\ Cardinality(MappingNames(source_id)) = 2
          /\ ~HasValue(source_id)
          /\ NoMappedNameOnOffer(source_id)
          /\ source_id \notin Range(OZON_ATTRIBUTES_IDS.vendorCode)
          /\ source_id \notin TnVedAttributes(ozon_attributes)
          /\ offer.param # <<>>
          /\ FinalError(source_id, "missing")

\* C9: every marketplace attribute that is required and disabled and is left
\* without a value ends with the error "logical", whatever its mappings and
\* whatever tags the offer carries.
C9_RequiredDisabledIsLogical ==
    bpc = "done" =>
        \A source_id \in DOMAIN ozon_attributes :
            (/\ Required(source_id)
             /\ Disabled(source_id)
             /\ ~HasValue(source_id)) =>
                FinalError(source_id, "logical")

\* C9, amended: the same holds for every such attribute other than the type
\* attribute 8229, unless an earlier step has recorded an error for it: the
\* fallback tag of a name, vendor code or model attribute is absent, the
\* weight of the weight attribute is no number, or the attribute is a
\* customs-code attribute.
C9_RequiredDisabledIsLogicalUnlessEarlierError ==
    bpc = "done" =>
        \A source_id \in DOMAIN ozon_attributes :
            (/\ Required(source_id)
             /\ Disabled(source_id)
             /\ ~HasValue(source_id)
             /\ source_id # TYPE_SOURCE_ID
             /\ ~FallbackTagFails(source_id)
             /\ source_id \notin TnVedAttributes(ozon_attributes)) =>
                FinalError(source_id, "logical")

C9_Witness ==
    /\ bpc = "done"
    /\ \E source_id \in DOMAIN ozon_attributes \ {TYPE_SOURCE_ID} :
          /\ Required(source_id)
          /\ Disabled(source_id)
          /\ ~HasValue(source_id)
          /\ ~FallbackTagFails(source_id)
          /\ source_id \notin TnVedAttributes(ozon_attributes)
          /\ offer.param # <<>>
          /\ Len(offer.tags) > 1
          /\ FinalError(source_id, "logical")

(***************************************************************************)
(* Properties of collect_offer_import_params.  LastInfo is the dict of the *)
(* offer processed last; every offer of a batch is the last one in the     *)
(* state its turn of the loop leaves.                                      *)
(***************************************************************************)
LastInfo == offer_import_params[processed]

RequiredAttributes ==
    {source_id \in DOMAIN ozon_attributes :
        ozon_attributes[source_id].required}

\* the dict carries a value for the marketplace attribute
InfoHasValue(info, source_id) ==
    \/ source_id \in DOMAIN info.attributes
    \/ source_id \in DOMAIN info.complex_attributes

\* the resolver emitted a value for the marketplace attribute
ResolverEmitted(source_id) ==
    \E n \in 1..Len(result.values) :
        result.values[n].attribute_source_id = source_id

\* the value was put by _collect_attributes, not by
\* add_name_to_complex_video afterwards
InfoHasCollectedValue(info, source_id) ==
    \/ source_id \in DOMAIN info.attributes
    \/ /\ source_id \in DOMAIN info.complex_attributes
       /\ source_id = VIDEO_NAME_ID => ResolverEmitted(VIDEO_NAME_ID)

\* C11 as stated: a processed offer is ready for import exactly when no
\* required marketplace attribute of the category is left without a value
\* and the offer has no tag error
C11_ReadyIffNoRequiredLeftAndNoTagError ==
    processed >= 1 =>
        (LastInfo.ready_for_import <=>
            /\ \A source_id \in RequiredAttributes :
                  InfoHasValue(LastInfo, source_id)
            /\ LastInfo.tags_errors = EmptyMap)

\* C11 amended: a processed offer is ready for import exactly when every
\* required marketplace attribute other than the type attribute 8229 got a
\* value while the attributes were collected (a video name filled in from
\* the offer's name afterwards does not count) and the offer has no tag
\* error
C11_ReadyIffRequiredCollectedAndNoTagError ==
    processed >= 1 =>
        (LastInfo.ready_for_import <=>
            /\ \A source_id \in RequiredAttributes \ {TYPE_SOURCE_ID} :
                  InfoHasCollectedValue(LastInfo, source_id)
            /\ LastInfo.tags_errors = EmptyMap)

\* an offer is ready for import although the required type attribute has
\* no value
C11_Witness ==
    /\ processed >= 1
    /\ LastInfo.ready_for_import
    /\ TYPE_SOURCE_ID \in RequiredAttributes
    /\ ~InfoHasValue(LastInfo, TYPE_SOURCE_ID)
    /\ \E source_id \in RequiredAttributes \ {TYPE_SOURCE_ID} :
          InfoHasCollectedValue(LastInfo, source_id)

\* the dict _collect_offer_parameters returns for the offer when it is the
\* first thing the manager does after the fetches of
\* collect_offer_import_params
InfoOfOfferAlone(o) ==
    CollectOfferParametersFrom(Acc(EmptyMap, EmptyMap, <<>>, EmptyMap), o,
                               ozon_attributes, fetched_attribute_map,
                               market_category_deleted,
                               marketAttributeValues, unitRows).info

\* C16: the dict returned for an offer is the one the offer gets when it is
\* processed alone on the fetched attribute map and metadata, whatever the
\* offers processed before it in the batch have left in the manager
C16_OutputIndependentOfEarlierOffers ==
    processed >= 1 => LastInfo = InfoOfOfferAlone(offers[processed])

\* the second offer of a batch is processed after a different offer that
\* left values and errors in the accumulators and a re-keyed attribute map
C16_Witness ==
    /\ processed = 2
    /\ offers[1] # offers[2]
    /\ offer_import_params[1].attributes # EmptyMap
    /\ offer_import_params[1].attributes_errors # EmptyMap
    /\ offer_import_params[1].tags_errors # EmptyMap
    /\ offer_import_params[1] # LastInfo
    /\ attribute_map # fetched_attribute_map
    /\ LastInfo = InfoOfOfferAlone(offers[2])

\* C17 as stated: processing an offer leaves the attribute map as
\* collect_offer_import_params fetched it
C17_AttributeMapUnchanged ==
    processed >= 1 => attribute_map = fetched_attribute_map

(***************************************************************************)
(* Properties of the mapping calls.                                        *)
(***************************************************************************)
AutoMappers == {"map_attribute_equal_values", "map_attribute_equal_values_v2"}

\* the ValueMap rows the last call created
CreatedValueMaps == DOMAIN ValueMapRows \ DOMAIN rows_before.ValueMap

\* the live values of the mapping's dictionary whose uppercased text is the
\* feed value's
EqualMarketValues(attribute_map_id, feed_value_id) ==
    {id \in DOMAIN MarketValueRows :
        /\ MarketValueRows[id].dictionary_id
              = MarketAttributeRows[
                   AttributeMapRows[attribute_map_id]
                       .marketplace_attribute_id].dictionary_id
        /\ ~MarketValueRows[id].deleted
        /\ Upper(MarketValueRows[id].value)
              = Upper(FeedValueRows[feed_value_id].value)}

\* the feed values of the mapping's feed attribute that had no ValueMap
\* under the mapping before the last call
UnmappedBefore(attribute_map_id) ==
    {id \in DOMAIN FeedValueRows :
        /\ FeedValueRows[id].attribute_id
              = AttributeMapRows[attribute_map_id].feed_attribute_id
        /\ ~\E v \in DOMAIN rows_before.ValueMap :
              /\ rows_before.ValueMap[v].attribute_map_id = attribute_map_id
              /\ rows_before.ValueMap[v].feed_attribute_value_id = id}

CreatedFor(attribute_map_id, feed_value_id) ==
    {v \in CreatedValueMaps :
        /\ ValueMapRows[v].attribute_map_id = attribute_map_id
        /\ ValueMapRows[v].feed_attribute_value_id = feed_value_id}

\* C12 as stated: a second run of the same auto-mapper right after a run
\* that ended without an error, when the database fails no create, creates
\* no ValueMap row and raises no error
C12_SecondRunCreatesNothing ==
    [][(/\ last_call.name \in AutoMappers
        /\ last_call.error = ""
        /\ last_call'.name = last_call.name
        /\ last_call'.arg = last_call.arg
        /\ calls' = calls + 1
        /\ last_call'.error # "OperationalError")
          => /\ ValueMapRows' = ValueMapRows
             /\ last_call'.error = ""]_vars

\* C13 as stated: map_attribute_equal_values(m) that ends without an error
\* has created nothing when m's marketplace attribute lacks map_equal_values
\* or a dictionary; else it has created, for each feed value of m's feed
\* attribute without a ValueMap under m, exactly one ValueMap, to a live
\* value of the dictionary with the same uppercased text when there is one,
\* else to default_value_id when it is set, and none otherwise
C13_OneMappingPerUnmappedValue ==
    (last_call.name = "map_attribute_equal_values" /\ last_call.error = "")
       => LET m == last_call.arg
              default_value_id ==
                 MarketAttributeRows[
                    AttributeMapRows[m].marketplace_attribute_id
                 ].default_value_id
          IN  IF ~Qualifies(Database, m) THEN CreatedValueMaps = {}
              ELSE /\ \A v \in CreatedValueMaps :
                         /\ ValueMapRows[v].attribute_map_id = m
                         /\ ValueMapRows[v].feed_attribute_value_id
                               \in UnmappedBefore(m)
                   /\ \A f \in UnmappedBefore(m) :
                         IF EqualMarketValues(m, f) # {}
                         THEN /\ Cardinality(CreatedFor(m, f)) = 1
                              /\ \A v \in CreatedFor(m, f) :
                                    ValueMapRows[v]
                                        .marketplace_attribute_value_id
                                       \in EqualMarketValues(m, f)
                         ELSE IF default_value_id # None
                         THEN /\ Cardinality(CreatedFor(m, f)) = 1
                              /\ \A v \in CreatedFor(m, f) :
                                    ValueMapRows[v]
                                        .marketplace_attribute_value_id
                                       = default_value_id
                         ELSE CreatedFor(m, f) = {}

\* C14 as stated: after map_attribute_equal_values_v2(feed) that ends
\* without an error, under every qualifying mapping of the feed each feed
\* value that had no ValueMap under that mapping and equals a live value of
\* the dictionary in uppercased text has a ValueMap to such a value, and no
\* ValueMap was created for a feed value without an equal value
C14_EveryEqualValueMapped ==
    (last_call.name = "map_attribute_equal_values_v2"
     /\ last_call.error = "")
       => /\ \A m \in QualifyingMaps(Database, last_call.arg) :
                \A f \in UnmappedBefore(m) :
                   EqualMarketValues(m, f) # {}
                      => \E v \in DOMAIN ValueMapRows :
                            /\ ValueMapRows[v].attribute_map_id = m
                            /\ ValueMapRows[v].feed_attribute_value_id = f
                            /\ ValueMapRows[v].marketplace_attribute_value_id
                                  \in EqualMarketValues(m, f)
          /\ \A v \in CreatedValueMaps :
                EqualMarketValues(ValueMapRows[v].attribute_map_id,
                                  ValueMapRows[v].feed_attribute_value_id)
                   # {}

\* C15 as stated: a run of an auto-mapper that ends with an error leaves
\* the ValueMap rows as they were before the run
C15_FailedRunLeavesNoRow ==
    (last_call.name \in AutoMappers /\ last_call.error # "")
       => ValueMapRows = rows_before.ValueMap

\* C18: every AttributeMap's feed attribute belongs to the feed category
\* of its CategoryMap, every ValueMap's feed value belongs to the feed
\* attribute of its AttributeMap, and a write refused for breaking either
\* has stored nothing
C18_MappingsBelong ==
    /\ \A a \in DOMAIN AttributeMapRows :
          FeedAttributeRows[AttributeMapRows[a].feed_attribute_id].category_id
             = CategoryMapRows[AttributeMapRows[a].category_map_id]
                  .feed_category_id
    /\ \A v \in DOMAIN ValueMapRows :
          FeedValueRows[ValueMapRows[v].feed_attribute_value_id].attribute_id
             = AttributeMapRows[ValueMapRows[v].attribute_map_id]
                  .feed_attribute_id
    /\ last_call.error = "ValidationError"
          => /\ AttributeMapRows = rows_before.AttributeMap
             /\ ValueMapRows = rows_before.ValueMap

\* an editor's write that breaks the rule is refused after mappings of
\* attributes and of values have been created
C18_Witness ==
    /\ last_call.error = "ValidationError"
    /\ DOMAIN AttributeMapRows # {}
    /\ DOMAIN ValueMapRows # {}


\* ---------------------------------------------------------------------
\* The garbage collector: the cascade of one soft-deleted category
\* ---------------------------------------------------------------------

\* the links of a category, as loaded
LinksOfCategory(c) ==
    {x \in DOMAIN state_first.mp_category_attributes :
        state_first.mp_category_attributes[x].category = c}

\* the attributes left with no non-deleted link once those of c are deleted
AttributesLeftUnlinked(c) ==
    {a \in DOMAIN state_first.mp_attributes :
        \A x \in DOMAIN state_first.mp_category_attributes :
            state_first.mp_category_attributes[x].attribute = a
                => x \in LinksOfCategory(c)}

\* the dictionaries left with no non-deleted attribute
DictionariesLeftUnused(c) ==
    {d \in DOMAIN state_first.mp_dictionaries :
        \A a \in DOMAIN state_first.mp_attributes :
            state_first.mp_attributes[a].dictionary = d
                => a \in AttributesLeftUnlinked(c)}

ValuesOfDictionaries(dictionaries) ==
    {v \in DOMAIN state_first.mp_values :
        state_first.mp_values[v].dictionary \in dictionaries}

\* the tables as loaded, less the cascade of category c and nothing else
StateFirstLessCascade(c) ==
    [mp_categories |-> Without(state_first.mp_categories, {c}),
     mp_category_attributes |->
         Without(state_first.mp_category_attributes, LinksOfCategory(c)),
     mp_attributes |->
         Without(state_first.mp_attributes, AttributesLeftUnlinked(c)),
     mp_dictionaries |->
         Without(state_first.mp_dictionaries, DictionariesLeftUnused(c)),
     mp_values |->
         Without(state_first.mp_values,
                 ValuesOfDictionaries(DictionariesLeftUnused(c)))]

\* the tables and collections after category c alone was soft-deleted
\* and one prepare pass ran at the given date
PreparedAfterSoftDeletion(c, date_prepared) ==
    prepare_mapper_objects_for_deletion(
        [base |-> [state_first EXCEPT
                      !.mp_categories = UpdateDeleted(@, {c}, TRUE)],
         mongo |-> NoRows],
        date_prepared)

\* category c was soft-deleted, one prepare pass ran, and the delete pass
\* that has just run had a threshold later than the prepare timestamp
CascadeCollected(c) ==
    /\ last_pass.name = "delete"
    /\ \E date_prepared \in 1..clock :
          /\ date_prepared < last_pass.date
          /\ before_pass = PreparedAfterSoftDeletion(c, date_prepared)

\* C19: after a marketplace category is soft-deleted, one prepare pass
\* followed by one delete pass whose threshold is later than the prepare
\* timestamp removes exactly that category, its links, every attribute
\* left with no non-deleted link, every dictionary left with no
\* non-deleted attribute and all values of those dictionaries; every
\* other row is left unchanged.
C19_CascadeRemovesExactly ==
    \A c \in DOMAIN state_first.mp_categories :
        CascadeCollected(c) => base = StateFirstLessCascade(c)

\* the same, for the categories that have no child category
C19_LeafCascadeRemovesExactly ==
    \A c \in DOMAIN state_first.mp_categories :
        /\ CascadeCollected(c)
        /\ ~\E child \in DOMAIN state_first.mp_categories :
              state_first.mp_categories[child].parent = c
        => base = StateFirstLessCascade(c)

\* the cascade of the leaf category 'cpu' has been collected
C19_LeafWitness ==
    /\ CascadeCollected(3)
    /\ DOMAIN base.mp_attributes = {1, 3}
    /\ DOMAIN base.mp_values = {3, 4, 5}

\* the rows that were scheduled but not soft-deleted when the last
\* operation started
RestoredBeforePass(table) ==
    {id \in ScheduledIds(before_pass.mongo[table])
               \cap DOMAIN before_pass.base[table] :
        ~before_pass.base[table][id].deleted}

\* C20: a row that was scheduled by a prepare pass but whose deleted flag
\* is false again when the delete pass runs is not physically deleted by
\* that pass, whatever the threshold.
C20_RestoredRowSurvivesDeletePass ==
    last_pass.name = "delete" =>
        \A table \in TableNames :
            RestoredBeforePass(table) \subseteq DOMAIN base[table]

\* the second half of C20: when every row is restored before the delete
\* pass, the pass leaves all rows as they were loaded
C20_RestoredCascadeLeavesAllRows ==
    /\ last_pass.name = "delete"
    /\ before_pass.base = state_first
    => base = state_first

\* a delete pass with an effective threshold has run on a fully restored
\* cascade whose rows were all scheduled
C20_RestoredCascadeWitness ==
    /\ last_pass.name = "delete"
    /\ before_pass.base = state_first
    /\ ScheduledIds(before_pass.mongo.mp_values) = {1, 2}
    /\ mongo.mp_values = <<>>
    /\ base = state_first

\* ---------------------------------------------------------------------
\* The garbage collector: the prepare pass
\* ---------------------------------------------------------------------

\* no row is soft-deleted, every attribute has a link and every
\* dictionary has an attribute
HealthyTables(db) ==
    /\ \A table \in TableNames : DeletedIds(db[table]) = {}
    /\ \A a \in DOMAIN db.mp_attributes :
          \E x \in DOMAIN db.mp_category_attributes :
              db.mp_category_attributes[x].attribute = a
    /\ \A d \in DOMAIN db.mp_dictionaries :
          \E a \in DOMAIN db.mp_attributes :
              db.mp_attributes[a].dictionary = d

\* C21: when no row is soft-deleted, every attribute has a non-deleted
\* link and every dictionary has a non-deleted attribute, a prepare pass
\* or a delete pass adds, removes and changes no row; the tables stay
\* healthy, so the same holds for any number of passes.
C21_HealthyTablesUnchanged ==
    /\ last_pass.name \in {"prepare", "delete"}
    /\ HealthyTables(before_pass.base)
    => base = before_pass.base

\* two prepare passes have run, and the delete pass has just run on the
\* healthy tables as loaded
C21_Witness ==
    /\ last_pass.name = "delete"
    /\ clock >= 3
    /\ HealthyTables(before_pass.base)
    /\ before_pass.base = state_first
    /\ base = state_first

\* one round of the cascade: every row that a rule reaches in db is
\* soft-deleted, all rules at once
CascadeRound(db) ==
    [mp_categories |-> db.mp_categories,
     mp_category_attributes |->
        UpdateDeleted(db.mp_category_attributes,
            {x \in DOMAIN db.mp_category_attributes :
                \/ db.mp_categories[db.mp_category_attributes[x].category].deleted
                \/ db.mp_attributes[db.mp_category_attributes[x].attribute].deleted},
            TRUE),
     mp_attributes |->
        UpdateDeleted(db.mp_attributes,
            {a \in DOMAIN db.mp_attributes :
                \A x \in DOMAIN db.mp_category_attributes :
                    db.mp_category_attributes[x].attribute = a
                        => db.mp_category_attributes[x].deleted},
            TRUE),
     mp_dictionaries |->
        UpdateDeleted(db.mp_dictionaries,
            {d \in DOMAIN db.mp_dictionaries :
                \A a \in DOMAIN db.mp_attributes :
                    db.mp_attributes[a].dictionary = d
                        => db.mp_attributes[a].deleted},
            TRUE),
     mp_values |->
        UpdateDeleted(db.mp_values,
            {v \in DOMAIN db.mp_values :
                db.mp_dictionaries[db.mp_values[v].dictionary].deleted},
            TRUE)]

\* the tables with exactly the rows reached by the cascade soft-deleted:
\* the rounds are repeated until nothing more is reached
RECURSIVE CascadeClosure(_)
CascadeClosure(db) ==
    IF CascadeRound(db) = db THEN db ELSE CascadeClosure(CascadeRound(db))

Documents(collection) == {collection[i] : i \in DOMAIN collection}

\* C23: a schedule document is inserted only for the ids that have none:
\* every id has at most one document in each collection, and a prepare
\* pass leaves every document that was there with its timestamp.
C23_OneDocumentPerIdWithFirstTimestamp ==
    \A table \in TableNames :
        /\ \A i, j \in DOMAIN mongo[table] :
              mongo[table][i].id = mongo[table][j].id => i = j
        /\ last_pass.name = "prepare" =>
              Documents(before_pass.mongo[table])
                  \subseteq Documents(mongo[table])

\* a prepare pass has run over soft-deleted categories of which one was
\* scheduled by an earlier pass and one was not
C23_Witness ==
    /\ last_pass.name = "prepare"
    /\ before_pass.mongo.mp_categories # <<>>
    /\ ScheduledIds(before_pass.mongo.mp_categories)
           \subseteq DeletedIds(before_pass.base.mp_categories)
    /\ Len(mongo.mp_categories) > Len(before_pass.mongo.mp_categories)
    /\ \E i, j \in DOMAIN mongo.mp_categories :
          mongo.mp_categories[i].timestamp < mongo.mp_categories[j].timestamp

\* ---------------------------------------------------------------------
\* The garbage collector: the delete pass
\* ---------------------------------------------------------------------

\* the rows of a table that the last operation physically removed
RemovedByPass(table) == DOMAIN before_pass.base[table] \ DOMAIN base[table]

\* C29: a row is physically deleted by the delete pass only if it has
\* been soft-deleted without a break since a prepare pass whose timestamp
\* is older than the threshold; stated for the rows the pass selects
\* itself, which are soft-deleted and have an outdated document.
C29_RemovedOnlyAfterThresholdSinceSoftDeletion ==
    last_pass.name = "delete" =>
        \A table \in TableNames :
            \A id \in RemovedByPass(table)
                         \cap DeletedIds(before_pass.base[table])
                         \cap Outdated(before_pass.mongo[table],
                                       last_pass.date) :
                /\ soft_deleted_since[table][id] # 0
                /\ soft_deleted_since[table][id] < last_pass.date

\* C30: the delete pass never physically removes a row whose deleted
\* flag is false, also not through the foreign-key cascade of a row it
\* removes.
C30_OnlySoftDeletedRowsRemoved ==
    last_pass.name = "delete" =>
        \A table \in TableNames :
            RemovedByPass(table) \subseteq DeletedIds(before_pass.base[table])

(***************************************************************************)
(* Properties of the required-attribute loop of _collect_attributes.       *)
(***************************************************************************)

\* the errors recorded by the steps before the loop over the required
\* attributes: the resolver's buckets, the fallback tags, the customs codes
EarlierErrors ==
    LET a1 == AddResolvedValues(
                  Acc(EmptyMap, EmptyMap, RequiredOf(ozon_attributes),
                      EmptyMap),
                  ozon_attributes, result.values, 1, {})
        a2 == AddResolverErrors(a1, ozon_attributes, result)
        a3 == AddFallbackTags(a2, ozon_attributes, offer)
    IN  add_tn_ved_codes(a3, offer, ozon_attributes,
                         marketAttributeValues).errors

\* every parameter name mapped to source_id is carried by the offer
AllMappedNamesOnOffer(source_id) ==
    \A name \in MappingNames(source_id) :
        HasFeedName(feed_attribute_values, name)

\* the errors the order of the claim allows for source_id
DecidedErrors(source_id) ==
    IF Disabled(source_id) THEN {"logical"}
    ELSE IF MappingNames(source_id) = {} THEN {"unmapped"}
    ELSE IF NoMappedNameOnOffer(source_id) THEN {"missing"}
    ELSE IF AllMappedNamesOnOffer(source_id) THEN {"unknown err"}
    ELSE {"missing", "unknown err"}

\* a required attribute without a value has an error, decided in the
\* order of the claim when no earlier step recorded one
HasDecidedError(source_id, earlier) ==
    /\ source_id \in DOMAIN attributes_errors
    /\ source_id \notin DOMAIN earlier =>
          attributes_errors[source_id] \in DecidedErrors(source_id)

DecidedAs(error) ==
    /\ bpc = "done"
    /\ \E source_id \in DOMAIN ozon_attributes \ {TYPE_SOURCE_ID} :
          /\ Required(source_id)
          /\ ~HasValue(source_id)
          /\ source_id \notin DOMAIN EarlierErrors
          /\ FinalError(source_id, error)

ValueBuckets ==
    <<Range(result.empty_value_attributes),
      Range(result.unmapped_value_attributes),
      Range(result.type_error_attributes),
      Range(result.mapped_with_deleted_value)>>

\* C25: in every output of get_mapped_values no marketplace attribute
\* source id appears in more than one of empty_value_attributes,
\* unmapped_value_attributes, type_error_attributes and
\* mapped_with_deleted_value, also when a name carries several raw values.
C25_BucketsDisjoint ==
    rpc = "done" =>
        \A i, j \in 1..Len(ValueBuckets) :
            i # j => ValueBuckets[i] \cap ValueBuckets[j] = {}

(***************************************************************************)
(* Properties of the lookup pipeline.                                      *)
(***************************************************************************)

\* the MarketCategoryAttribute row an attribute mapping leads to
LinkOf(mapping) == MarketCategoryAttributes[mapping.marketplace_attribute_id]

\* the marketplace attribute a stored value mapping leads to
TargetOf(value_map) ==
    LinkOf(attributeMaps[value_map.attribute_map_id]).attribute.source_id

\* the offer's parameter equals the mapped feed attribute name and the
\* mapped feed value after normalization
EqualAfterNormalization(param, value_map) ==
    /\ normalize_string(param.name) =
          normalize_string(FeedAttributes[
              value_map.feed_attribute_value.attribute_id].name)
    /\ normalize_string(param.text) =
          normalize_string(value_map.feed_attribute_value.value)

\* the resolver emitted the marketplace value of the value mapping
HitsTheMap(value_map) ==
    \E n \in 1..Len(result.values) :
        /\ result.values[n].attribute_source_id = TargetOf(value_map)
        /\ result.values[n].dictionary_value_id =
              value_map.marketplace_attribute_value.source_id

\* C26: map keys and the offer's raw names and values are normalized the
\* same way, so an offer parameter whose name and value equal a mapped
\* feed attribute name and feed value after normalization hits the map.
C26_EqualAfterNormalizationHits ==
    bpc = "done" =>
        \A i \in 1..Len(offer.param), v \in 1..Len(valueMaps) :
            /\ EqualAfterNormalization(offer.param[i], valueMaps[v])
            /\ ~LinkOf(attributeMaps[valueMaps[v].attribute_map_id]).deleted
            => HitsTheMap(valueMaps[v])

\* the offer carries a parameter of the mapped feed attribute
OfferCarries(mapping) ==
    \E i \in 1..Len(offer.param) :
        normalize_string(offer.param[i].name) =
            normalize_string(FeedAttributes[mapping.feed_attribute_id].name)

\* the output of the pipeline names the marketplace attribute: the resolver
\* emitted an entry for it or put it under mapped_with_deleted, or the
\* builder holds an error for it
Reported(source_id) ==
    \/ ResolverEmitted(source_id)
    \/ source_id \in Range(result.mapped_with_deleted)
    \/ source_id \in DOMAIN attributes_errors

\* C27: when the offer carries a value for a feed attribute whose mapping
\* leads to a soft-deleted marketplace target, the output of the pipeline
\* reports the attribute: a resolved entry, the mapped_with_deleted
\* classification or an error, never nothing at all.
C27_DeletedTargetIsReported ==
    bpc = "done" =>
        \A m \in 1..Len(attributeMaps) :
            /\ OfferCarries(attributeMaps[m])
            /\ LinkOf(attributeMaps[m]).deleted
            => Reported(LinkOf(attributeMaps[m]).attribute.source_id)

(***************************************************************************)
(* Properties of the errors of a ready offer.                              *)
(***************************************************************************)

\* C28: for every processed offer that is ready for import, no marketplace
\* attribute that ended up with a value still carries an error recorded
\* earlier in the same offer.
C28_ReadyOfferValueHasNoError ==
    processed >= 1 =>
        (LastInfo.ready_for_import =>
            \A source_id \in DOMAIN LastInfo.attributes_errors :
                ~InfoHasValue(LastInfo, source_id))
=============================================================================
